---- MODULE Spec2Model ----
(***************************************************************************)
(* Model of the ORI workflow of mcp-server-ori: the phase sequence, the    *)
(* handoff packet and the Phase 2.5 SME quality gate as the workflow       *)
(* specification (resources/ori.md, here src/unnamed/part_001) defines     *)
(* them.                                                                   *)
(*                                                                         *)
(* Phase numbers of the source are written as names:                       *)
(*   0 Strategy, 1 Research, 2 Verify, 2.5 SmeGate, 3 Implement,           *)
(*   4 Document.                                                           *)
(***************************************************************************)
EXTENDS Integers, Sequences, FiniteSets, TLC

(***************************************************************************)
(* Bounds of the model.                                                    *)
(***************************************************************************)
\* most findings, over all SME reviews, of one mapping handed to the
\* decision matrix on its own
MaxFindings == 3
\* most risk flags of one task
MaxFlags == 1
\* most SME agents enabled in one configuration
MaxEnabledSmes == 2
\* most files one run of Phase 3 creates or modifies
MaxFiles == 3
\* most words of a task text built from the vocabulary
MaxWords == 3
\* number of trace IDs generateTraceId can return
MaxFresh == 2

\* SME sub-configs present in one configuration document
MaxSmeConfigs == 1

\* file events the watcher reports in one run of the server
MaxEvents == 2

(***************************************************************************)
(* Program constants.                                                      *)
(***************************************************************************)
\* files_changed > 3 triggers the Code Quality SME
FileCountThreshold == 3
\* error_handling.max_retries; "If any step fails after 2 retries"
MaxRetries == 2
\* lines_changed > 200 triggers the Code Quality SME
LinesChangedThreshold == 200

Severities == {"Critical", "High", "Medium", "Low", "Info"}

\* the fixed order in which applicable_smes is built
SmeNames == <<"security", "compliance", "code_quality", "performance">>

SmeSet == {SmeNames[i] : i \in 1..Len(SmeNames)}

RiskFlagNames == {"security", "privacy", "compliance", "policy", "performance"}

\* phases 0, 1, 2, 3, 4: the phases the initial packet lists
BasePhases == <<"Strategy", "Research", "Verify", "Implement", "Document">>

\* phases 0, 1, 2, 2.5, 3, 4
PhaseOrder == <<"Strategy", "Research", "Verify", "SmeGate", "Implement", "Document">>

PhaseSet == {PhaseOrder[i] : i \in 1..Len(PhaseOrder)}

Range(s) == {s[i] : i \in 1..Len(s)}

\* position of an SME in the fixed order
SmeIndex(sme) == CHOOSE i \in 1..Len(SmeNames) : SmeNames[i] = sme

\* position of phase p in the six-phase order
PhaseIndex(p) == CHOOSE i \in 1..Len(PhaseOrder) : PhaseOrder[i] = p

\* phase.next: the following phase of 0..4, "None" after Document
NextOf(p) ==
  CASE p = "Strategy" -> "Research"
    [] p = "Research" -> "Verify"
    [] p = "Verify" -> "Implement"
    [] p = "SmeGate" -> "Implement"
    [] p = "Implement" -> "Document"
    [] OTHER -> "None"

VARIABLES
  cfg,        \* ori-config.json: [enabled, sme : SmeSet -> BOOLEAN]
  taskIn,     \* what the analysis of the request yields: risk flags, keyword hits
  packet,     \* the handoff packet
  status,     \* "running", "paused", "completed", "aborted", "failed"
  error,      \* "None", "PhaseError", "GateAbort"
  tasks,      \* SME sub-tasks launched by the running fan-out
  results,    \* results of the sub-tasks that have returned
  arrival,    \* the order in which the sub-tasks returned
  surfaced,   \* the findings shown to the user at a pause
  started,    \* history: phases that have started
  change,     \* <<files_changed, lines_changed>> Phase 2 last validated
  docLogged,  \* a Document failure was logged
  choice,     \* the last choice the user made at a pause, "none" before
  gateIn,     \* decision matrix on its own: the reviews
  gateOut     \* decision matrix on its own: its result


inputs == <<cfg, taskIn>>

gateVars == <<gateIn, gateOut>>

workflowVars == <<cfg, taskIn, packet, status, error, tasks, results,
                  arrival, surfaced, started, change, docLogged, choice>>

\* one phase agent on its own: the Verify agent (its assessment and what it
\* reports) and the Implement agent (its file operations)
VARIABLES
  verifyIn,   \* [confidence, risk] as Phase 2 has assessed them
  verifyOut,  \* [called, fired]: the branches of the decision matrix taken
  ops,        \* number of files Phase 3 has to create or modify
  opIdx,      \* the file operation Phase 3 is at
  attempts,   \* failed attempts of the operation Phase 3 is at
  opLog,      \* step d: per finished operation, [ok, tries]
  implReport  \* [outcome, rollback]: what Phase 3 reports

agentVars == <<verifyIn, verifyOut, ops, opIdx, attempts, opLog, implReport>>

NoAssessment == [confidence |-> "none", risk |-> "none"]

NoVerdict == [called |-> FALSE, fired |-> {}]

NoReport == [outcome |-> "none", rollback |-> FALSE]

AgentIdle ==
  /\ verifyIn = NoAssessment
  /\ verifyOut = NoVerdict
  /\ ops = 0
  /\ opIdx = 0
  /\ attempts = 0
  /\ opLog = <<>>
  /\ implReport = NoReport

\* one request to the MCP server: a call of a tool (execute_ori,
\* validate_config, analyze_task or a name that is none of them) or a
\* request about resources
VARIABLES
  req,        \* the request: its method, the tool's name and the arguments
  pc,         \* "idle", "called", "started", "returned", "thrown", "done"
  traceId,    \* the handler's traceId
  resp        \* what the handler returns

toolVars == <<req, pc, traceId, resp>>

\* a string handed in as config.trace_id, or a trace ID: kind is "absent"
\* (undefined), "empty" (""), "text" (not of the UUID shape) or "uuid"
\* (8-4-4-4-12 hex digits, of which version and variant are the first
\* digits of groups three and four; upper: written in capitals; n tells
\* two UUIDs apart)
TraceString(kind, version, variant, upper, n) ==
  [kind |-> kind, version |-> version, variant |-> variant,
   upper |-> upper, n |-> n]

NoTrace == TraceString("absent", "0", "0", FALSE, 0)

\* a JSON value as far as the handlers look at it: its type, and the value
\* of a boolean (bool) or a string (str, a sequence of pieces)
Value(type, bool, str) == [type |-> type, bool |-> bool, str |-> str]

Undefined == Value("undefined", FALSE, <<>>)

Bool(b) == Value("boolean", b, <<>>)

Str(s) == Value("string", FALSE, s)

Num == Value("number", FALSE, <<>>)

\* an object of a configuration document with its enabled: type is
\* "undefined" (the key is absent), "null" or "object"
NoSub == [type |-> "undefined", enabled |-> Undefined]

NoSmeAgents ==
  [type |-> "undefined", enabled |-> Undefined, security |-> NoSub,
   compliance |-> NoSub, code_quality |-> NoSub, performance |-> NoSub]

NoLogging ==
  [type |-> "undefined", enabled |-> Undefined, log_directory |-> Undefined]

\* a parsed configuration document; type is the type of the document itself
NoDoc ==
  [type |-> "undefined", version |-> Undefined, sme_agents |-> NoSmeAgents,
   safety_hooks |-> NoSub, logging |-> NoLogging]

\* a string that is to hold a configuration: json is "undefined" (no
\* string), "empty" (""), "malformed" (no JSON text), "document" (the JSON
\* text of doc) or, of a file, "unreadable" (reading it fails)
NoContent == [json |-> "undefined", doc |-> NoDoc]

\* config_path: kind is "undefined", "empty" ("") or "path", and file is
\* what is behind the path
NoPath == [kind |-> "undefined", file |-> NoContent]

\* args: whether params.arguments is there; task_type: "string", "number"
\* or "undefined"; sme_enabled and security_sme: the value of the switch in
\* config, Undefined if config or the switch is absent; uri: of a resource
NoRequest ==
  [method |-> "none", tool |-> "none", args |-> FALSE,
   task_type |-> "undefined", task |-> <<>>, trace |-> NoTrace,
   sme_enabled |-> Undefined, security_sme |-> Undefined,
   config_path |-> NoPath, config_content |-> NoContent,
   uri |-> <<>>]

NoAnalysis ==
  [complexity |-> "none", domain |-> "none", clarity_score |-> 0,
   risk_flags |-> <<>>, recommended_model |-> "none",
   estimated_duration_minutes |-> 0]

\* what a handler returns or throws: text tells the texts of content
\* apart, thrown is the message of an exception
NoResponse ==
  [isError |-> FALSE, text |-> "none", thrown |-> "none",
   text_trace_ids |-> {}, meta_trace_id |-> NoTrace,
   feedback_url_trace_id |-> NoTrace, analysis |-> NoAnalysis,
   lines |-> <<>>, valid |-> "none", errors |-> {}, warnings |-> <<>>,
   uris |-> {}, contents |-> <<>>]

ToolIdle ==
  /\ req = NoRequest
  /\ pc = "idle"
  /\ traceId = NoTrace
  /\ resp = NoResponse

\* the server process from main() on
VARIABLES
  env,        \* process.env.ENABLE_SYNC
  mainPc,     \* "idle", "register", "sync", "connect", "running",
              \* "rejected", "exited"
  handlers,   \* the request handlers registered, in order
  sync,       \* "none", "initialized", "failed"
  watcher,    \* whether the file watcher has been started
  fileEvents, \* what the file watcher has reported
  connected,  \* whether server.connect has returned
  exitCode    \* -1 while the process runs

serverVars ==
  <<env, mainPc, handlers, sync, watcher, fileEvents, connected, exitCode>>

ServerIdle ==
  /\ env = "unset"
  /\ mainPc = "idle"
  /\ handlers = <<>>
  /\ sync = "none"
  /\ watcher = FALSE
  /\ fileEvents = <<>>
  /\ connected = FALSE
  /\ exitCode = -1

vars == <<cfg, taskIn, packet, status, error, tasks, results,
          arrival, surfaced, started, change, docLogged, choice, gateIn,
          gateOut, verifyIn, verifyOut, ops, opIdx, attempts, opLog,
          implReport, req, pc, traceId, resp, env, mainPc, handlers,
          sync, watcher, fileEvents, connected, exitCode>>

(***************************************************************************)
(* Phase 2.5, step 2: Determine Applicable SME Agents.                     *)
(***************************************************************************)
\* the trigger of each SME, without its own enabled switch
Trigger(sme, t, f, l) ==
  CASE sme = "security" -> "security" \in t.flags \/ t.kwSecurity
    [] sme = "compliance" -> "compliance" \in t.flags \/ "privacy" \in t.flags
    [] sme = "code_quality" -> f > FileCountThreshold \/ l > LinesChangedThreshold
    [] sme = "performance" -> "performance" \in t.flags \/ t.kwPerformance
    [] OTHER -> FALSE

\* applicable_smes: appended in the order security, compliance,
\* code_quality, performance
ApplicableSmes(c, t, f, l) ==
  SelectSeq(SmeNames, LAMBDA sme : Trigger(sme, t, f, l) /\ c.sme[sme])

\* the entry test without the master switch
ShouldExecuteIgnoresSwitch(c, t, f, l) ==
  \E sme \in SmeSet : Trigger(sme, t, f, l)

\* When This Phase Executes: master switch and at least one SME trigger
ShouldExecuteSmeGate(c, t, f, l) ==
  c.enabled /\ \E sme \in SmeSet : Trigger(sme, t, f, l)

(***************************************************************************)
(* Phase 2.5, step 4: Aggregate SME Results.  A sub-task result is         *)
(* [ok, sevs]: ok = FALSE is a sub-task that timed out or failed, sevs the *)
(* severities of the findings it reported, in the order it reported them.  *)
(***************************************************************************)
\* the result slot of a sub-task that has not delivered a review
NoResult == [ok |-> FALSE, sevs |-> <<>>]

\* the join taken as soon as one SME agent has returned
JoinReadyAny(launched, arr) ==
  launched = <<>> \/ Range(launched) \cap Range(arr) # {}

\* Wait for all SME agents to complete
JoinReady(launched, arr) == Range(launched) \subseteq Range(arr)

FindingsOf(sevs) ==
  [i \in 1..Len(sevs) |-> [severity |-> sevs[i], location |-> i]]

ReviewOf(res) ==
  IF res.ok THEN [executed |-> TRUE, findings |-> FindingsOf(res.sevs)]
  ELSE [executed |-> FALSE, findings |-> <<>>]

\* the reviews entered in the order in which the SME agents returned
AggregateByArrival(launched, res) ==
  [i \in 1..Len(arrival) |->
     [name |-> arrival[i], review |-> ReviewOf(res[arrival[i]])]]

\* sme_reviews, an ordered mapping: one entry per launched SME
Aggregate(launched, res) ==
  [i \in 1..Len(launched) |->
     [name |-> launched[i], review |-> ReviewOf(res[launched[i]])]]

(***************************************************************************)
(* Phase 2.5, step 5: Decision Matrix.  The two loops of the source,       *)
(* over sme_reviews.items() and over the findings of each review.          *)
(***************************************************************************)
\* the inner loop with the lists built back to front
RECURSIVE ScanFindingsPrepend(_, _, _, _)
ScanFindingsPrepend(sme, fs, i, acc) ==
  IF i > Len(fs) THEN acc
  ELSE ScanFindingsPrepend(sme, fs, i + 1,
         IF fs[i].severity = "Critical"
           THEN [acc EXCEPT !.critical = <<<<sme, fs[i]>>>> \o @]
         ELSE IF fs[i].severity = "High"
           THEN [acc EXCEPT !.high = <<<<sme, fs[i]>>>> \o @]
         ELSE acc)

RECURSIVE ScanFindings(_, _, _, _)
ScanFindings(sme, fs, i, acc) ==
  IF i > Len(fs) THEN acc
  ELSE ScanFindings(sme, fs, i + 1,
         IF fs[i].severity = "Critical"
           THEN [acc EXCEPT !.critical = Append(@, <<sme, fs[i]>>)]
         ELSE IF fs[i].severity = "High"
           THEN [acc EXCEPT !.high = Append(@, <<sme, fs[i]>>)]
         ELSE acc)

RECURSIVE ScanReviews(_, _, _)
ScanReviews(reviews, k, acc) ==
  IF k > Len(reviews) THEN acc
  ELSE ScanReviews(reviews, k + 1,
         ScanFindings(reviews[k].name, reviews[k].review.findings, 1, acc))

\* the test of the decision matrix with the High findings left out
BlocksCriticalOnly(acc) == acc.critical # <<>>

\* the test of the decision matrix with the Critical findings left out
BlocksHighOnly(acc) == acc.high # <<>>

\* critical_findings or high_findings non-empty: pause; else proceed
Blocks(acc) == acc.critical # <<>> \/ acc.high # <<>>

decide(reviews) ==
  LET acc == ScanReviews(reviews, 1, [critical |-> <<>>, high |-> <<>>])
  IN [decision |-> IF Blocks(acc) THEN "Pause" ELSE "Proceed",
      critical |-> acc.critical,
      high |-> acc.high]

(***************************************************************************)
(* The phase block of the handoff packet.                                  *)
(***************************************************************************)
\* Initialize Handoff Packet: current 0, next 1, completed [], remaining [1,2,3,4]
InitPhase ==
  [current |-> "Strategy", next |-> "Research", completed |-> <<>>,
   remaining |-> Tail(BasePhases)]

\* the hand-off that does not record the phase it leaves as completed
AdvanceForgets(ph, n) ==
  [current |-> n, next |-> NextOf(n),
   completed |-> ph.completed,
   remaining |-> SelectSeq(ph.remaining, LAMBDA q : q # n)]

\* hand-off from the current phase to phase n
Advance(ph, n) ==
  [current |-> n, next |-> NextOf(n),
   completed |-> Append(ph.completed, ph.current),
   remaining |-> SelectSeq(ph.remaining, LAMBDA q : q # n)]

\* LOOP_BACK_TO_PHASE_2: Verify is the current phase again
LoopBack(ph) ==
  [current |-> "Verify", next |-> NextOf("Verify"),
   completed |-> SelectSeq(ph.completed, LAMBDA q : q # "Verify"),
   remaining |-> ph.remaining]

(***************************************************************************)
(* Inputs of one run.                                                      *)
(***************************************************************************)
Configs ==
  [enabled : BOOLEAN,
   sme : {f \in [SmeSet -> BOOLEAN] :
            Cardinality({s \in SmeSet : f[s]}) <= MaxEnabledSmes}]

TaskInputs ==
  [flags : {S \in SUBSET RiskFlagNames : Cardinality(S) <= MaxFlags},
   kwSecurity : BOOLEAN, kwPerformance : BOOLEAN]

\* files_changed and lines_changed of the implementation Phase 2 has
\* validated: at, and just above, the thresholds
ChangeSizes ==
  {<<FileCountThreshold, LinesChangedThreshold>>,
   <<FileCountThreshold + 1, LinesChangedThreshold>>,
   <<FileCountThreshold, LinesChangedThreshold + 1>>}

\* what a sub-task that completes may report
SmeReports == {<<"Low">>, <<"Critical">>}

\* what Phase 0 extracts from the user request into the packet: nothing,
\* or the three lists of the JWT example
RequestContexts ==
  {[constraints |-> <<>>, acceptance_criteria |-> <<>>,
    safety_invariants |-> <<>>],
   [constraints |-> <<"use Express.js", "OWASP compliance required">>,
    acceptance_criteria |-> <<"bcrypt passwords", "signed JWTs",
                              "secure cookies">>,
    safety_invariants |-> <<"no secrets in code", "HTTPS only">>]}

\* the handoff packet as initialised before Phase 0
InitPacket ==
  [phase |-> InitPhase,
   user_request |-> [risk_flags |-> {}],
   constraints |-> <<>>,
   acceptance_criteria |-> <<>>,
   safety_invariants |-> <<>>,
   sme_reviews |-> <<>>]

\* a hand-off that rebuilds the packet from a summary: the three context
\* lists are lost
HandoffSummarized(p, n) ==
  [InitPacket EXCEPT !.phase = Advance(p.phase, n),
                     !.user_request = p.user_request,
                     !.sme_reviews = p.sme_reviews]

\* the packet handed over to phase n: the existing fields are kept, the
\* phase block is updated
Handoff(p, n) == [p EXCEPT !.phase = Advance(@, n)]

\* the request as step 2 of Phase 2.5 sees it: the packet's risk flags and
\* the keywords of the request text
Request == [taskIn EXCEPT !.flags = packet.user_request.risk_flags]

Current == packet.phase.current

\* the decision matrix has not been called
NoDecision == [decision |-> "none", critical |-> <<>>, high |-> <<>>]

GateIdle == gateIn = <<>> /\ gateOut = NoDecision

Init ==
  /\ cfg \in Configs
  /\ taskIn \in TaskInputs
  /\ packet = InitPacket
  /\ status = "running"
  /\ error = "None"
  /\ tasks = <<>>
  /\ results = [s \in SmeSet |-> NoResult]
  /\ arrival = <<>>
  /\ surfaced = [critical |-> <<>>, high |-> <<>>]
  /\ started = {"Strategy"}
  /\ change = <<0, 0>>
  /\ docLogged = FALSE
  /\ choice = "none"
  /\ GateIdle
  /\ AgentIdle
  /\ ToolIdle /\ ServerIdle

(***************************************************************************)
(* Phases 0, 1, 2.                                                         *)
(***************************************************************************)
\* Phase 0 ends: the analysis has filled risk_flags; hand-off to Phase 1
FinishStrategy ==
  /\ status = "running" /\ Current = "Strategy"
  /\ \E ctx \in RequestContexts :
       packet' = [Handoff(packet, "Research") EXCEPT
                    !.user_request.risk_flags = taskIn.flags,
                    !.constraints = ctx.constraints,
                    !.acceptance_criteria = ctx.acceptance_criteria,
                    !.safety_invariants = ctx.safety_invariants]
  /\ started' = started \cup {"Research"}
  /\ UNCHANGED <<inputs, status, error, tasks, results, arrival, surfaced,
                 change, docLogged, choice, gateVars, agentVars, toolVars, serverVars>>

\* Phase 1 ends: hand-off to Phase 2
FinishResearch ==
  /\ status = "running" /\ Current = "Research"
  /\ packet' = Handoff(packet, "Verify")
  /\ started' = started \cup {"Verify"}
  /\ UNCHANGED <<inputs, status, error, tasks, results, arrival, surfaced,
                 change, docLogged, choice, gateVars, agentVars, toolVars, serverVars>>

\* Phase 2 ends: Phase 2.5 if its conditions are met (the applicable SME
\* agents are launched in parallel), else skip to Phase 3 directly
FinishVerify ==
  /\ status = "running" /\ Current = "Verify"
  /\ \E cs \in ChangeSizes :
       /\ change' = cs
       /\ IF ShouldExecuteSmeGate(cfg, Request, cs[1], cs[2])
            THEN /\ packet' = Handoff(packet, "SmeGate")
                 /\ started' = started \cup {"SmeGate"}
                 /\ tasks' = ApplicableSmes(cfg, Request, cs[1], cs[2])
            ELSE /\ packet' = Handoff(packet, "Implement")
                 /\ started' = started \cup {"Implement"}
                 /\ tasks' = <<>>
  /\ results' = [s \in SmeSet |-> NoResult]
  /\ arrival' = <<>>
  /\ UNCHANGED <<inputs, status, error, surfaced, docLogged, choice, gateVars, agentVars, toolVars, serverVars>>

(***************************************************************************)
(* Phase 2.5: fan-out, join, decision.                                     *)
(***************************************************************************)
InFanOut == status = "running" /\ Current = "SmeGate"

Pending(s) == s \in Range(tasks) /\ s \notin Range(arrival)

\* one SME agent completes and delivers its review
SmeTaskCompletes(s) ==
  /\ InFanOut /\ Pending(s)
  /\ \E sevs \in SmeReports :
       results' = [results EXCEPT ![s] = [ok |-> TRUE, sevs |-> sevs]]
  /\ arrival' = Append(arrival, s)
  /\ UNCHANGED <<inputs, packet, status, error, tasks, surfaced, started,
                 change, docLogged, choice, gateVars, agentVars, toolVars, serverVars>>

\* one SME agent times out or fails: no review from it
SmeTaskFails(s) ==
  /\ InFanOut /\ Pending(s)
  /\ results' = [results EXCEPT ![s] = NoResult]
  /\ arrival' = Append(arrival, s)
  /\ UNCHANGED <<inputs, packet, status, error, tasks, surfaced, started,
                 change, docLogged, choice, gateVars, agentVars, toolVars, serverVars>>

\* steps 4 and 5: wait for all, aggregate, decision matrix
JoinAndDecide ==
  /\ InFanOut /\ JoinReady(tasks, arrival)
  /\ LET reviews == Aggregate(tasks, results)
         d == decide(reviews)
     IN IF d.decision = "Pause"
          THEN /\ status' = "paused"
               /\ surfaced' = [critical |-> d.critical, high |-> d.high]
               /\ packet' = [packet EXCEPT !.sme_reviews = reviews]
               /\ UNCHANGED <<started, tasks, results, arrival>>
          ELSE /\ status' = "running"
               /\ surfaced' = surfaced
               /\ packet' = Handoff([packet EXCEPT !.sme_reviews = reviews],
                                     "Implement")
               /\ started' = started \cup {"Implement"}
               /\ tasks' = <<>>
               /\ results' = [s \in SmeSet |-> NoResult]
               /\ arrival' = <<>>
  /\ UNCHANGED <<inputs, error, change, docLogged, choice, gateVars, agentVars, toolVars, serverVars>>

\* the answers handled with "abort" going on to Phase 3
ChoiceTargetNoAbort(c) ==
  CASE c = "fix" -> "Verify"
    [] OTHER -> "Implement"

\* what the decision matrix does with the user's answer: "fix" loops back
\* to Phase 2, "proceed" goes on to Phase 3, anything else aborts
ChoiceTarget(c) ==
  CASE c = "fix" -> "Verify"
    [] c = "proceed" -> "Implement"
    [] OTHER -> "Abort"

\* the user's answer to ask_user at the pause
UserChoice(c) ==
  /\ status = "paused"
  /\ choice' = c
  /\ CASE ChoiceTarget(c) = "Verify" ->
            /\ packet' = [packet EXCEPT !.phase = LoopBack(@)]
            /\ status' = "running"
            /\ UNCHANGED <<started, error>>
       [] ChoiceTarget(c) = "Implement" ->
            /\ packet' = Handoff(packet, "Implement")
            /\ status' = "running"
            /\ started' = started \cup {"Implement"}
            /\ UNCHANGED error
       [] OTHER ->
            /\ status' = "aborted"
            /\ error' = "GateAbort"
            /\ UNCHANGED <<packet, started>>
  /\ tasks' = <<>>
  /\ results' = [s \in SmeSet |-> NoResult]
  /\ arrival' = <<>>
  /\ UNCHANGED <<inputs, surfaced, change, docLogged, gateVars, agentVars, toolVars, serverVars>>

(***************************************************************************)
(* Phases 3 and 4, and failures.                                           *)
(***************************************************************************)
\* Phase 3 ends with every step done: hand-off to Phase 4
FinishImplement ==
  /\ status = "running" /\ Current = "Implement"
  /\ packet' = Handoff(packet, "Document")
  /\ started' = started \cup {"Document"}
  /\ UNCHANGED <<inputs, status, error, tasks, results, arrival, surfaced,
                 change, docLogged, choice, gateVars, agentVars, toolVars, serverVars>>

\* a failed Phase 3 that is passed over: the error is noted and Phase 4 runs
FailImplementGoesOn ==
  /\ status = "running" /\ Current = "Implement"
  /\ error' = "PhaseError"
  /\ packet' = Handoff(packet, "Document")
  /\ started' = started \cup {"Document"}
  /\ UNCHANGED <<inputs, status, tasks, results, arrival, surfaced, change,
                 docLogged, choice, gateVars, agentVars, toolVars, serverVars>>

\* Rollback Mechanism: a step of Phase 3 still fails after its retries:
\* halt implementation, present the error
FailImplement ==
  /\ status = "running" /\ Current = "Implement"
  /\ status' = "failed"
  /\ error' = "PhaseError"
  /\ UNCHANGED <<inputs, packet, tasks, results, arrival, surfaced, started,
                 change, docLogged, choice, gateVars, agentVars, toolVars, serverVars>>

\* a capability error in Phase 0, 1 or 2 is escalated: the sequence halts
FailPhase(p) ==
  /\ p \in {"Strategy", "Research", "Verify"}
  /\ status = "running" /\ Current = p
  /\ status' = "failed"
  /\ error' = "PhaseError"
  /\ UNCHANGED <<inputs, packet, tasks, results, arrival, surfaced, started,
                 change, docLogged, choice, gateVars, agentVars, toolVars, serverVars>>

\* Phase 4 ends: the workflow is complete
FinishDocument ==
  /\ status = "running" /\ Current = "Document"
  /\ status' = "completed"
  /\ UNCHANGED <<inputs, packet, error, tasks, results, arrival, surfaced,
                 started, change, docLogged, choice, gateVars, agentVars, toolVars, serverVars>>

\* a failure in Phase 4 is logged and the workflow still completes
FailDocument ==
  /\ status = "running" /\ Current = "Document"
  /\ docLogged' = TRUE
  /\ status' = "completed"
  /\ UNCHANGED <<inputs, packet, error, tasks, results, arrival, surfaced,
                 started, change, choice, gateVars, agentVars, toolVars, serverVars>>

Next ==
  \/ FinishStrategy
  \/ FinishResearch
  \/ FinishVerify
  \/ \E s \in SmeSet : SmeTaskCompletes(s)
  \/ \E s \in SmeSet : SmeTaskFails(s)
  \/ JoinAndDecide
  \/ \E c \in {"fix", "proceed", "abort"} : UserChoice(c)
  \/ FinishImplement
  \/ FailImplement
  \/ \E p \in {"Strategy", "Research", "Verify"} : FailPhase(p)
  \/ FinishDocument
  \/ FailDocument

Spec == Init /\ [][Next]_vars

\* a phase that is running ends, with its result or with its failure
PhaseEnds ==
  \/ FinishStrategy
  \/ FinishResearch
  \/ FinishVerify
  \/ FinishImplement
  \/ FailImplement
  \/ \E p \in {"Strategy", "Research", "Verify"} : FailPhase(p)
  \/ FinishDocument
  \/ FailDocument

\* every phase ends, every SME sub-task completes or times out, the join is
\* taken once it is ready, and the user answers a pause with some choice
Fairness ==
  /\ WF_vars(PhaseEnds)
  /\ \A s \in SmeSet : WF_vars(SmeTaskCompletes(s) \/ SmeTaskFails(s))
  /\ WF_vars(JoinAndDecide)
  /\ WF_vars(\E c \in {"fix", "proceed", "abort"} : UserChoice(c))

FairSpec == Spec /\ Fairness

(***************************************************************************)
(* The decision matrix on its own: every mapping from SME names to         *)
(* findings lists with at most MaxFindings findings in all.                *)
(***************************************************************************)
\* the findings of a mapping, flattened: <<index of the SME, severity>>
\* pairs, the SMEs in the order of the mapping
FlatFindings ==
  UNION {{f \in [1..n -> (1..Len(SmeNames)) \X Severities] :
            \A i \in 1..(n - 1) : f[i][1] <= f[i + 1][1]} : n \in 0..MaxFindings}

\* the severities flat lists for SME number k, in order
SevsFor(flat, k) ==
  LET mine == SelectSeq(flat, LAMBDA e : e[1] = k)
  IN [i \in 1..Len(mine) |-> mine[i][2]]

\* the mapping with the findings of flat, and an entry without findings
\* for every SME of extra
ReviewsFrom(flat, extra) ==
  LET present == SelectSeq(SmeNames, LAMBDA sme :
                   sme \in extra \/ \E i \in 1..Len(flat) : SmeNames[flat[i][1]] = sme)
  IN [j \in 1..Len(present) |->
        [name |-> present[j],
         review |-> ReviewOf([ok |-> TRUE,
                              sevs |-> SevsFor(flat, SmeIndex(present[j]))])]]

WorkflowIdle ==
  /\ cfg = [enabled |-> FALSE, sme |-> [s \in SmeSet |-> FALSE]]
  /\ taskIn = [flags |-> {}, kwSecurity |-> FALSE, kwPerformance |-> FALSE]
  /\ packet = InitPacket
  /\ status = "idle"
  /\ error = "None"
  /\ tasks = <<>>
  /\ results = [s \in SmeSet |-> NoResult]
  /\ arrival = <<>>
  /\ surfaced = [critical |-> <<>>, high |-> <<>>]
  /\ started = {}
  /\ change = <<0, 0>>
  /\ docLogged = FALSE
  /\ choice = "none"

InitGate ==
  /\ WorkflowIdle
  /\ \E flat \in FlatFindings : \E extra \in SUBSET SmeSet :
       gateIn = ReviewsFrom(flat, extra)
  /\ gateOut = NoDecision
  /\ AgentIdle
  /\ ToolIdle /\ ServerIdle

\* one call of the decision matrix
GateDecide ==
  /\ gateOut = NoDecision
  /\ gateOut' = decide(gateIn)
  /\ UNCHANGED <<inputs, packet, status, error, tasks, results, arrival,
                 surfaced, started, change, docLogged, choice, gateIn,
                 agentVars, toolVars, serverVars>>

NextGate == GateDecide

SpecGate == InitGate /\ [][NextGate]_vars

(***************************************************************************)
(* Properties of the decision matrix (checked under SpecGate).             *)
(***************************************************************************)
\* the findings of the input with severity sev: <<k, i>> is finding i of
\* entry k of the mapping
GateEntries(sev) ==
  {e \in (1..Len(gateIn)) \X (1..MaxFindings + 1) :
     /\ e[2] <= Len(gateIn[e[1]].review.findings)
     /\ gateIn[e[1]].review.findings[e[2]].severity = sev}

GateItem(e) == <<gateIn[e[1]].name, gateIn[e[1]].review.findings[e[2]]>>

\* where an item of a carried list sits in the input
GatePos(item) ==
  <<CHOOSE k \in 1..Len(gateIn) : gateIn[k].name = item[1], item[2].location>>

Before(a, b) == a[1] < b[1] \/ (a[1] = b[1] /\ a[2] < b[2])

\* list holds exactly the findings of severity sev, each once, each with
\* the SME that reported it, in the order of the input
CarriesExactly(list, sev) ==
  /\ Len(list) = Cardinality(GateEntries(sev))
  /\ \A j \in 1..Len(list) : \E e \in GateEntries(sev) : list[j] = GateItem(e)
  /\ \A e \in GateEntries(sev) : \E j \in 1..Len(list) : list[j] = GateItem(e)
  /\ \A j1, j2 \in 1..Len(list) :
       j1 < j2 => Before(GatePos(list[j1]), GatePos(list[j2]))

\* C2: decide returns Pause exactly when some finding of some SME is
\* Critical or High, Proceed otherwise, and never Abort.
C2_GateCorrect ==
  gateOut # NoDecision =>
    /\ gateOut.decision \in {"Pause", "Proceed"}
    /\ gateOut.decision = "Pause" <=>
         (GateEntries("Critical") # {} \/ GateEntries("High") # {})

\* decide has paused on an input whose only blocking findings are High
C2_Witness ==
  /\ gateOut.decision = "Pause"
  /\ GateEntries("Critical") = {}
  /\ GateEntries("Medium") # {}

\* C5: at a Pause the two lists carry exactly the Critical and exactly the
\* High findings of the input, each with its SME, in input order.
C5_PauseCarriesFindings ==
  gateOut.decision = "Pause" =>
    /\ CarriesExactly(gateOut.critical, "Critical")
    /\ CarriesExactly(gateOut.high, "High")

\* a Pause over two SMEs: two Critical findings of different SMEs and a
\* finding of lower severity that is left out
C5_Witness ==
  /\ gateOut.decision = "Pause"
  /\ Len(gateOut.critical) = 2
  /\ gateOut.critical[1][1] # gateOut.critical[2][1]
  /\ GateEntries("Low") # {}

(***************************************************************************)
(* Properties of the workflow (checked under Spec and FairSpec).           *)
(***************************************************************************)
Completed == packet.phase.completed

Remaining == packet.phase.remaining

PhaseUnion == Range(Completed) \cup {Current} \cup Range(Remaining)

PhaseDisjoint ==
  /\ Range(Completed) \cap Range(Remaining) = {}
  /\ Current \notin Range(Completed) \cup Range(Remaining)
  /\ Cardinality(Range(Completed)) = Len(Completed)
  /\ Cardinality(Range(Remaining)) = Len(Remaining)

\* the phases of seq before (after) phase p of the six-phase order
PrefixBefore(seq, p) ==
  SelectSeq(seq, LAMBDA q : PhaseIndex(q) < PhaseIndex(p))

SuffixAfter(seq, p) ==
  SelectSeq(seq, LAMBDA q : PhaseIndex(q) > PhaseIndex(p))

\* the phase block is right for a run whose fixed phase sequence is seq
PhaseBlockFor(seq) ==
  /\ PhaseDisjoint
  /\ PhaseUnion = Range(seq)
  /\ Completed = PrefixBefore(seq, Current)

\* C1 as stated: in every state the phase block is right for the phase
\* sequence of the run, the five phases or the six with SmeGate, and that
\* sequence (the union) is the same through the whole run.
C1_Original ==
  /\ [](PhaseBlockFor(BasePhases) \/ PhaseBlockFor(PhaseOrder))
  /\ [][PhaseUnion' = PhaseUnion]_vars

\* SmeGate is current or listed as completed
GateListed == Current = "SmeGate" \/ "SmeGate" \in Range(Completed)

\* C1 amended: completed, {current} and remaining are pairwise disjoint;
\* completed is exactly the phases of the six-phase order before current,
\* with or without SmeGate; remaining is exactly the phases of Strategy,
\* Research, Verify, Implement, Document after current and never lists
\* SmeGate; so the union is those five phases, plus SmeGate exactly while
\* SmeGate is current or completed.
C1_PhaseBlock ==
  /\ PhaseDisjoint
  /\ \/ Completed = PrefixBefore(PhaseOrder, Current)
     \/ Completed = PrefixBefore(BasePhases, Current)
  /\ Remaining = SuffixAfter(BasePhases, Current)
  /\ PhaseUnion = Range(BasePhases) \cup (IF GateListed THEN {"SmeGate"} ELSE {})

\* Implement runs after SmeGate was executed, in a run that looped back
C1_Witness ==
  /\ Current = "Implement"
  /\ "SmeGate" \in Range(Completed)
  /\ choice = "fix"

BlockingIn(reviews) ==
  \E k \in 1..Len(reviews) : \E i \in 1..Len(reviews[k].review.findings) :
    reviews[k].review.findings[i].severity \in {"Critical", "High"}

\* C3: from a pause the only step is the user's choice: proceed goes on
\* with Implement, fix goes back to Verify, abort ends the run with
\* GateAbort and nothing runs after it; without a choice no run with
\* Critical or High findings gets to Implement; a pause carries no error.
C3_PauseBlocks ==
  /\ [][status = "paused" =>
          \/ choice' = "proceed" /\ status' = "running"
               /\ Current' = "Implement"
          \/ choice' = "fix" /\ status' = "running" /\ Current' = "Verify"
               /\ started' = started
          \/ choice' = "abort" /\ status' = "aborted" /\ error' = "GateAbort"
               /\ packet' = packet /\ started' = started]_vars
  /\ [][status = "aborted" => status' = "aborted" /\ packet' = packet
          /\ started' = started]_vars
  /\ [](status = "paused" => error = "None" /\ Current = "SmeGate")
  /\ [](error = "GateAbort" <=> status = "aborted")
  /\ []("Implement" \in started /\ choice = "none"
          => ~BlockingIn(packet.sme_reviews))

\* the run was aborted at a pause, before Implement
C3_Witness ==
  /\ status = "aborted"
  /\ "Implement" \notin started
  /\ surfaced.critical # <<>>

\* some SME trigger condition matches: a risk flag of an SME's domain, a
\* keyword, or the file or line count of the change
SomeTrigger ==
  \/ packet.user_request.risk_flags
       \cap {"security", "compliance", "privacy", "performance"} # {}
  \/ taskIn.kwSecurity \/ taskIn.kwPerformance
  \/ change[1] > FileCountThreshold \/ change[2] > LinesChangedThreshold

JwtTask == [flags |-> {"security"}, kwSecurity |-> TRUE, kwPerformance |-> FALSE]

\* the master switch and the Security SME enabled, no other SME
SecurityOnly ==
  [enabled |-> TRUE, sme |-> [s \in SmeSet |-> s = "security"]]

\* sme_reviews with the Security SME's review of exactly one Critical finding
OneCriticalReview ==
  <<[name |-> "security",
     review |-> [executed |-> TRUE,
                 findings |-> <<[severity |-> "Critical", location |-> 1]>>]]>>

C6_Scenario == taskIn = JwtTask /\ cfg = SecurityOnly

\* C6: in the JWT scenario SmeGate is never skipped; the join over the
\* Security SME's single Critical finding pauses the run; and at that pause
\* exactly this finding is surfaced, current is SmeGate, completed is
\* Strategy, Research, Verify, remaining is Implement, Document, and
\* Implement has not started.
C6_JwtScenario ==
  /\ [](C6_Scenario /\ "Implement" \in started => "SmeGate" \in started)
  /\ [][C6_Scenario /\ InFanOut /\ packet'.sme_reviews = OneCriticalReview
          /\ (~InFanOut' \/ packet.sme_reviews # OneCriticalReview)
          => status' = "paused"]_vars
  /\ [](C6_Scenario /\ status = "paused"
          /\ packet.sme_reviews = OneCriticalReview =>
            /\ Current = "SmeGate"
            /\ Completed = <<"Strategy", "Research", "Verify">>
            /\ Remaining = <<"Implement", "Document">>
            /\ surfaced = [critical |-> <<<<"security",
                              [severity |-> "Critical", location |-> 1]>>>>,
                           high |-> <<>>]
            /\ "Implement" \notin started)

\* the first pause of the JWT scenario
C6_Witness ==
  /\ C6_Scenario
  /\ status = "paused"
  /\ packet.sme_reviews = OneCriticalReview
  /\ choice = "none"

\* C7 as stated: every run reaches a terminal state (completed, aborted or
\* failed) once the user answers every pause, because the loop-back to
\* Verify is taken at most three times.
C7_Original == <>(status \in {"completed", "aborted", "failed"})

\* C8: a phase failure halts the run at that phase with PhaseError and the
\* packet as it was; the failed phase is not in completed; nothing runs
\* after the failure; no phase is passed over with an error; a Document
\* failure is only logged and the run completes.
C8_FailureHalts ==
  /\ [][status' = "failed" /\ status # "failed" =>
          /\ packet' = packet /\ started' = started
          /\ error' = "PhaseError"
          /\ Current # "Document"]_vars
  /\ [][status = "failed" => status' = "failed" /\ packet' = packet
          /\ started' = started]_vars
  /\ [](status = "failed" => Current \notin Range(Completed))
  /\ [](error = "PhaseError" <=> status = "failed")
  /\ [](docLogged => status = "completed" /\ error = "None")

\* Implement failed after SmeGate had been executed
C8_Witness ==
  /\ status = "failed"
  /\ Current = "Implement"
  /\ "SmeGate" \in Range(Completed)
  /\ "Document" \notin started

\* the step that ends the fan-out: the join
JoinStep == InFanOut /\ ~InFanOut'

KeysInFixedOrder(reviews) ==
  \A i, j \in 1..Len(reviews) :
    i < j => SmeIndex(reviews[i].name) < SmeIndex(reviews[j].name)

\* C9: sme_reviews always has its keys in the order security, compliance,
\* code_quality, performance, and the join writes one entry per returned
\* SME whose content is that SME's result, whatever the order of return.
C9_FixedKeyOrder ==
  /\ [](KeysInFixedOrder(packet.sme_reviews))
  /\ [][JoinStep =>
          /\ Len(packet'.sme_reviews) = Len(arrival)
          /\ Range(packet'.sme_reviews) =
               {[name |-> s, review |-> ReviewOf(results[s])] :
                  s \in Range(arrival)}]_vars

\* a join over two SMEs that returned against the fixed order
C9_Witness ==
  /\ status = "paused"
  /\ Len(arrival) = 2
  /\ SmeIndex(arrival[1]) > SmeIndex(arrival[2])
  /\ Len(packet.sme_reviews) = 2

IsPrefix(a, b) == Len(a) <= Len(b) /\ SubSeq(b, 1, Len(a)) = a

ContextWritten == "Research" \in started

\* C11: once Strategy has written constraints, acceptance_criteria and
\* safety_invariants, every later step (phase executions, pauses,
\* loop-backs, failures) leaves the earlier value of each list a prefix of
\* its new value: nothing is removed or reordered
C11_ContextAppendOnly ==
  [][ContextWritten =>
       /\ IsPrefix(packet.constraints, packet'.constraints)
       /\ IsPrefix(packet.acceptance_criteria, packet'.acceptance_criteria)
       /\ IsPrefix(packet.safety_invariants, packet'.safety_invariants)]_vars

\* a run that has looped back from a pause and reached Phase 3 with the
\* constraints Strategy wrote
C11_Witness ==
  /\ choice = "fix"
  /\ Current = "Implement"
  /\ Len(packet.constraints) = 2
  /\ Len(packet.acceptance_criteria) = 3

(***************************************************************************)
(* Phase 2 on its own: the decision matrix of the Verify agent.            *)
(***************************************************************************)
Levels == <<"low", "medium", "high">>

LevelSet == Range(Levels)

LevelIndex(l) == CHOOSE i \in 1..Len(Levels) : Levels[i] = l

Assessments == [confidence : LevelSet, risk : LevelSet]

\* IF confidence = high AND risk = low
BranchAuto(c, r) == c = "high" /\ r = "low"

\* IF confidence = high AND risk = medium
BranchConfirm(c, r) == c = "high" /\ r = "medium"

\* the third branch with AND in the place of OR
BranchReviewBoth(c, r) == LevelIndex(c) < LevelIndex("high") /\ r = "high"

\* IF confidence < high OR risk = high
BranchReview(c, r) == LevelIndex(c) < LevelIndex("high") \/ r = "high"

\* the branches of the decision matrix that fire
VerifyDecisions(c, r) ==
  (IF BranchAuto(c, r) THEN {"auto_proceed"} ELSE {})
    \cup (IF BranchConfirm(c, r) THEN {"single_confirmation"} ELSE {})
    \cup (IF BranchReview(c, r) THEN {"full_review"} ELSE {})

ImplementIdle ==
  /\ ops = 0 /\ opIdx = 0 /\ attempts = 0 /\ opLog = <<>>
  /\ implReport = NoReport

InitVerifyAgent ==
  /\ verifyIn \in Assessments
  /\ verifyOut = NoVerdict
  /\ ImplementIdle

\* step 5 of Phase 2: the agent states its decision; the packet and the
\* position of the workflow are left to the orchestrator
VerifyDecide ==
  /\ verifyIn # NoAssessment /\ ~verifyOut.called
  /\ verifyOut' = [called |-> TRUE,
                   fired |-> VerifyDecisions(verifyIn.confidence,
                                             verifyIn.risk)]
  /\ UNCHANGED <<workflowVars, gateVars, toolVars, serverVars, verifyIn, ops, opIdx, attempts,
                 opLog, implReport>>

(***************************************************************************)
(* Phase 3 on its own: the file operations of the Implement agent.         *)
(***************************************************************************)
ErrorKinds == {"FileNotFoundError", "PermissionError", "OtherError"}

\* retries that go on until one attempt succeeds: one more than max_retries
RetriesForOneMore(kind) == MaxRetries + 1

\* Error Handling Protocol and Rollback Mechanism: how many retries of the
\* operation a failure of this kind allows
RetriesFor(kind) ==
  CASE kind = "PermissionError" -> 0
    [] kind = "FileNotFoundError" -> 1
    [] OTHER -> MaxRetries

Logged(ok) == Append(opLog, [ok |-> ok, tries |-> attempts + 1])

InitImplementAgent ==
  /\ verifyIn = NoAssessment
  /\ verifyOut = NoVerdict
  /\ ops \in 1..MaxFiles
  /\ opIdx = 1
  /\ attempts = 0
  /\ opLog = <<>>
  /\ implReport = NoReport

Implementing == ops > 0 /\ implReport = NoReport /\ opIdx <= ops

\* steps b-e of the Execution Sequence: the operation succeeds, is logged,
\* and the agent continues to the next file; after the last file the phase
\* reports success
FileOpSucceeds ==
  /\ Implementing
  /\ opLog' = Logged(TRUE)
  /\ opIdx' = opIdx + 1
  /\ attempts' = 0
  /\ implReport' = IF opIdx = ops
                     THEN [outcome |-> "success", rollback |-> FALSE]
                     ELSE implReport
  /\ UNCHANGED <<workflowVars, gateVars, toolVars, serverVars, verifyIn, verifyOut, ops>>

\* the operation fails: it is retried while the error allows it; else
\* implementation halts, the failure is logged and presented together with
\* the rollback (rollback_on_failure)
FileOpFails(kind) ==
  /\ Implementing
  /\ IF attempts < RetriesFor(kind)
       THEN /\ attempts' = attempts + 1
            /\ UNCHANGED <<opIdx, opLog, implReport>>
       ELSE /\ opLog' = Logged(FALSE)
            /\ implReport' = [outcome |-> "partial_failure",
                              rollback |-> TRUE]
            /\ UNCHANGED <<opIdx, attempts>>
  /\ UNCHANGED <<workflowVars, gateVars, toolVars, serverVars, verifyIn, verifyOut, ops>>

InitAgents ==
  /\ WorkflowIdle /\ GateIdle /\ ToolIdle /\ ServerIdle
  /\ (InitVerifyAgent \/ InitImplementAgent)

NextAgents ==
  \/ VerifyDecide
  \/ FileOpSucceeds
  \/ \E kind \in ErrorKinds : FileOpFails(kind)

SpecAgents == InitAgents /\ [][NextAgents]_vars

(***************************************************************************)
(* Properties of the phase agents (checked under SpecAgents).              *)
(***************************************************************************)
MatrixDecision(c, r) ==
  IF c = "high" /\ r = "low" THEN "auto_proceed"
  ELSE IF c = "high" /\ r = "medium" THEN "single_confirmation"
  ELSE "full_review"

AllLoggedOk == \A i \in 1..Len(opLog) : opLog[i].ok

\* C13: an operation of Implement is retried at most 2 times, 3 attempts in
\* all, and a retry is a retry of the same operation; the phase reports
\* success exactly when every file operation has succeeded, and when an
\* operation is given up it reports partial failure with rollback
C13_ImplementRetries ==
  /\ [](/\ attempts <= 2
        /\ \A i \in 1..Len(opLog) : opLog[i].tries <= 3
        /\ (implReport.outcome = "success")
             <=> (ops > 0 /\ Len(opLog) = ops /\ AllLoggedOk)
        /\ ~AllLoggedOk
             <=> implReport = [outcome |-> "partial_failure",
                               rollback |-> TRUE])
  /\ [][attempts' > attempts =>
          opIdx' = opIdx /\ opLog' = opLog /\ implReport' = NoReport]_vars

\* the first file succeeded and the second was given up after its third
\* attempt
C13_Witness ==
  /\ implReport.outcome = "partial_failure"
  /\ implReport.rollback
  /\ Len(opLog) = 2
  /\ opLog[1].ok
  /\ opLog[2] = [ok |-> FALSE, tries |-> 3]

(***************************************************************************)
(* Task texts.  A string is a sequence of pieces: a piece is a run of      *)
(* letters or the blank " " between two words.  The pieces of a word are   *)
(* cut where a keyword of analyzeTask begins or ends inside it ("build"    *)
(* holds "ui", "authentication" holds "auth"), so that a keyword occurs in *)
(* a string exactly when its pieces occur in it side by side.              *)
(***************************************************************************)
Vocabulary ==
  {<<"add">>, <<"fix">>, <<"Refactor">>, <<"JWT">>,
   <<"auth", "entication">>, <<"api">>, <<"b", "ui", "ld">>, <<"deploy">>,
   <<"data">>, <<"test">>, <<"improve">>, <<"with">>, <<"privacy">>,
   <<"compliance">>, <<"sensitive">>, <<"User", "Profile">>, <<"user">>}

RECURSIVE Join(_)
\* the words written one after the other with blanks between them
Join(ws) ==
  IF ws = <<>> THEN <<>>
  ELSE IF Len(ws) = 1 THEN ws[1]
  ELSE ws[1] \o <<" ">> \o Join(Tail(ws))

\* "add JWT authentication with bcrypt"
JwtBcryptText ==
  Join(<< <<"add">>, <<"JWT">>, <<"auth", "entication">>, <<"with">>,
          <<"bcrypt">> >>)

\* "update privacy policy for GDPR"
GdprPolicyText ==
  Join(<< <<"update">>, <<"privacy">>, <<"policy">>, <<"for">>,
          <<"GDPR">> >>)

\* "refactor the entire auth module"
RefactorAuthText ==
  Join(<< <<"refactor">>, <<"the">>, <<"entire">>, <<"auth">>,
          <<"module">> >>)

\* "sensitive compliance privacy JWT"
AllFlagsText ==
  Join(<< <<"sensitive">>, <<"compliance">>, <<"privacy">>, <<"JWT">> >>)

\* "personal data"
PersonalDataText == Join(<< <<"personal">>, <<"data">> >>)

\* ""
EmptyText == <<>>

ExampleTexts ==
  {JwtBcryptText, GdprPolicyText, RefactorAuthText, AllFlagsText,
   PersonalDataText, EmptyText}

Texts ==
  {Join(ws) : ws \in UNION {[1..n -> Vocabulary] : n \in 1..MaxWords}}
    \cup ExampleTexts

\* the number of characters of a piece
PieceLength(a) ==
  CASE a \in {" ", "b"} -> 1
    [] a \in {"ui", "ld"} -> 2
    [] a \in {"add", "fix", "JWT", "api", "for", "the"} -> 3
    [] a \in {"auth", "data", "test", "with", "User", "user", "GDPR"} -> 4
    [] a \in {"deploy", "bcrypt", "update", "policy", "entire",
              "module"} -> 6
    [] a \in {"improve", "privacy", "Profile"} -> 7
    [] a \in {"Refactor", "refactor", "personal"} -> 8
    [] a = "sensitive" -> 9
    [] a \in {"entication", "compliance"} -> 10

RECURSIVE StringLength(_)
\* task.length
StringLength(t) ==
  IF t = <<>> THEN 0 ELSE PieceLength(Head(t)) + StringLength(Tail(t))

\* String.prototype.toLowerCase on one piece
LowerPiece(a) ==
  CASE a = "Refactor" -> "refactor"
    [] a = "JWT" -> "jwt"
    [] a = "GDPR" -> "gdpr"
    [] a = "User" -> "user"
    [] a = "Profile" -> "profile"
    [] OTHER -> a

toLowerCase(t) == [i \in 1..Len(t) |-> LowerPiece(t[i])]

\* a piece of the form [A-Z][a-z]+
Capitalized(a) == a \in {"Refactor", "User", "Profile"}

\* kw occurs in t at position i
OccursAt(t, kw, i) ==
  /\ i >= 1 /\ i + Len(kw) - 1 <= Len(t)
  /\ SubSeq(t, i, i + Len(kw) - 1) = kw

\* String.prototype.includes
includes(t, kw) == \E i \in 1..Len(t) : OccursAt(t, kw, i)

\* \b before position i and after position j of t
Bounded(t, i, j) ==
  /\ (i = 1 \/ t[i - 1] = " ")
  /\ (j = Len(t) \/ t[j + 1] = " ")

\* t.match(/\b(kw1|kw2|...)\b/)
matchWord(t, kws) ==
  \E kw \in kws : \E i \in 1..Len(t) :
    OccursAt(t, kw, i) /\ Bounded(t, i, i + Len(kw) - 1)

\* t.match(/\b[A-Z][a-z]+(?:[A-Z][a-z]+)*\b/)
matchIdentifier(t) ==
  \E i \in 1..Len(t) : \E j \in i..Len(t) :
    /\ \A k \in i..j : Capitalized(t[k])
    /\ Bounded(t, i, j)

(***************************************************************************)
(* analyzeTask.                                                            *)
(***************************************************************************)
\* complexityIndicators.high and .low (.medium is never read)
HighIndicators ==
  {<<"refactor">>, <<"architecture">>, <<"migrate">>, <<"complex">>,
   <<"multiple">>, <<"entire">>, <<"redesign">>}

LowIndicators ==
  {<<"fix">>, <<"update">>, <<"change">>, <<"modify">>, <<"small">>,
   <<"simple">>}

\* the two tests taken in the other order
ComplexityLowFirst(taskLower) ==
  IF \E word \in LowIndicators : includes(taskLower, word) THEN "LOW"
  ELSE IF \E word \in HighIndicators : includes(taskLower, word) THEN "HIGH"
  ELSE "MEDIUM"

Complexity(taskLower) ==
  IF \E word \in HighIndicators : includes(taskLower, word) THEN "HIGH"
  ELSE IF \E word \in LowIndicators : includes(taskLower, word) THEN "LOW"
  ELSE "MEDIUM"

\* domainKeywords, in the order of its keys
DomainKeywords ==
  <<[name |-> "Security/Auth",
     keywords |-> {<<"auth">>, <<"security">>, <<"jwt">>, <<"oauth">>,
                   <<"password">>, <<"encryption">>, <<"crypto">>}],
    [name |-> "API/Backend",
     keywords |-> {<<"api">>, <<"endpoint">>, <<"backend">>, <<"server">>,
                   <<"database">>, <<"query">>}],
    [name |-> "Frontend/UI",
     keywords |-> {<<"ui">>, <<"frontend">>, <<"component">>, <<"react">>,
                   <<"vue">>, <<"angular">>, <<"css">>}],
    [name |-> "DevOps/Infrastructure",
     keywords |-> {<<"deploy">>, <<"docker">>, <<"kubernetes">>,
                   <<"ci/cd">>, <<"pipeline">>, <<"infrastructure">>}],
    [name |-> "Data/Analytics",
     keywords |-> {<<"data">>, <<"analytics">>, <<"chart">>, <<"graph">>,
                   <<"visualization">>, <<"report">>}],
    [name |-> "Testing",
     keywords |-> {<<"test">>, <<"test", "ing">>, <<"unit", " ", "test">>,
                   <<"integration", " ", "test">>, <<"e2e">>}]>>

DomainMatches(taskLower, k) ==
  \E keyword \in DomainKeywords[k].keywords : includes(taskLower, keyword)

RECURSIVE DomainNoBreak(_, _, _)
\* the loop over the domains without its break: the last match stays
DomainNoBreak(taskLower, k, domain) ==
  IF k > Len(DomainKeywords) THEN domain
  ELSE DomainNoBreak(taskLower, k + 1,
                     IF DomainMatches(taskLower, k)
                       THEN DomainKeywords[k].name ELSE domain)

RECURSIVE DomainFrom(_, _, _)
\* the loop over the domains from entry k on, domain being "General"
DomainFrom(taskLower, k, domain) ==
  IF k > Len(DomainKeywords) THEN domain
  ELSE IF DomainMatches(taskLower, k) THEN DomainKeywords[k].name
  ELSE DomainFrom(taskLower, k + 1, domain)

ActionVerbs ==
  {<<"add">>, <<"create">>, <<"implement">>, <<"fix">>, <<"remove">>,
   <<"update">>}

VagueTerms == {<<"improve">>, <<"enhance">>, <<"optimize">>, <<"better">>}

Max(a, b) == IF a >= b THEN a ELSE b

Min(a, b) == IF a <= b THEN a ELSE b

\* clarity_score in tenths; every test reads taskLower
ClarityScore(taskLower) ==
  LET base == 5
      verbs == IF matchWord(taskLower, ActionVerbs) THEN 2 ELSE 0
      entities == IF matchIdentifier(taskLower) THEN 1 ELSE 0
      vague == IF matchWord(taskLower, VagueTerms) THEN 1 ELSE 0
      limits == IF includes(taskLower, <<"using">>)
                     \/ includes(taskLower, <<"with">>) THEN 1 ELSE 0
  IN Max(0, Min(10, base + verbs + entities - vague + limits))

SecurityTerms ==
  {<<"auth">>, <<"password">>, <<"jwt">>, <<"oauth">>, <<"crypto">>,
   <<"encryption">>, <<"security">>}

PrivacyTerms ==
  {<<"gdpr">>, <<"ccpa">>, <<"privacy">>, <<"pii">>,
   <<"personal", " ", "data">>}

ComplianceTerms == {<<"license">>, <<"compliance">>, <<"legal">>}

PolicyTerms ==
  {<<"user", " ", "data">>, <<"sensitive">>, <<"confidential">>}

\* the four tests chained with else: the first match alone is flagged
RiskFlagsFirstOnly(taskLower) ==
  IF matchWord(taskLower, SecurityTerms) THEN <<"security">>
  ELSE IF matchWord(taskLower, PrivacyTerms) THEN <<"privacy">>
  ELSE IF matchWord(taskLower, ComplianceTerms) THEN <<"compliance">>
  ELSE IF matchWord(taskLower, PolicyTerms) THEN <<"policy">>
  ELSE <<>>

\* the four tests in the order of the source, each pushing its flag
RiskFlags(taskLower) ==
  (IF matchWord(taskLower, SecurityTerms) THEN <<"security">> ELSE <<>>)
    \o (IF matchWord(taskLower, PrivacyTerms) THEN <<"privacy">> ELSE <<>>)
    \o (IF matchWord(taskLower, ComplianceTerms)
          THEN <<"compliance">> ELSE <<>>)
    \o (IF matchWord(taskLower, PolicyTerms) THEN <<"policy">> ELSE <<>>)

\* the recommendation with the risk flags left out of account
RecommendedModelByComplexity(complexity, risk_flags) ==
  IF complexity = "HIGH" THEN "opus"
  ELSE IF complexity = "MEDIUM" THEN "sonnet"
  ELSE "haiku"

RecommendedModel(complexity, risk_flags) ==
  IF complexity = "HIGH" \/ Len(risk_flags) > 0 THEN "opus"
  ELSE IF complexity = "MEDIUM" THEN "sonnet"
  ELSE "haiku"

\* the surcharge for SME reviews counted once for every risk flag
EstimatedDurationPerFlag(complexity, risk_flags) ==
  (CASE complexity = "LOW" -> 3
     [] complexity = "MEDIUM" -> 5
     [] OTHER -> 8)
    + 2 * Len(risk_flags)

\* baseTime[complexity], plus 2 for SME reviews if there are risk flags
EstimatedDuration(complexity, risk_flags) ==
  (CASE complexity = "LOW" -> 3
     [] complexity = "MEDIUM" -> 5
     [] OTHER -> 8)
    + (IF Len(risk_flags) > 0 THEN 2 ELSE 0)

analyzeTask(task) ==
  LET taskLower == toLowerCase(task)
      complexity == Complexity(taskLower)
      risk_flags == RiskFlags(taskLower)
  IN [complexity |-> complexity,
      domain |-> DomainFrom(taskLower, 1, "General"),
      clarity_score |-> ClarityScore(taskLower),
      risk_flags |-> risk_flags,
      recommended_model |-> RecommendedModel(complexity, risk_flags),
      estimated_duration_minutes |->
        EstimatedDuration(complexity, risk_flags)]

(***************************************************************************)
(* The request handlers of the server and the tool handlers.               *)
(***************************************************************************)
\* config.trace_id as callers may hand it in: none, "", a string that is
\* no UUID, UUIDs of version 4 (either case, one with a variant digit
\* outside 8..b) and a UUID of version 1
TraceArgs ==
  {NoTrace,
   TraceString("empty", "0", "0", FALSE, 0),
   TraceString("text", "0", "0", FALSE, 0),
   TraceString("uuid", "4", "8", FALSE, 0),
   TraceString("uuid", "4", "b", TRUE, 0),
   TraceString("uuid", "4", "c", FALSE, 0),
   TraceString("uuid", "1", "8", FALSE, 0)}

\* the test of the UUID shape alone
isValidUuidAnyVersion(t) == t.kind = "uuid"

\* /^[0-9a-f]{8}-[0-9a-f]{4}-4[0-9a-f]{3}-[89ab][0-9a-f]{3}-[0-9a-f]{12}$/i
isValidTraceId(t) ==
  /\ t.kind = "uuid"
  /\ t.version = "4"
  /\ t.variant \in {"8", "9", "a", "b"}

\* a string in a condition: undefined and "" count as false
Truthy(t) == t.kind \notin {"absent", "empty"}

\* what randomUUID can return
GeneratedIds ==
  {TraceString("uuid", "4", v, FALSE, n) :
     v \in {"8", "9", "a", "b"}, n \in 1..MaxFresh}

\* a JSON value in a condition
TruthyValue(v) ==
  CASE v.type = "boolean" -> v.bool
    [] v.type = "string" -> v.str # <<>>
    [] v.type \in {"undefined", "null"} -> FALSE
    [] OTHER -> TRUE

\* v ?? d
Nullish(v, d) == IF v.type \in {"undefined", "null"} THEN d ELSE v

\* the Phase 2.5 section written if either switch is on
buildInstructionsGateForSecurity(args, id) ==
  LET smeEnabled == TruthyValue(Nullish(args.sme_enabled, Bool(FALSE)))
      securitySme == TruthyValue(Nullish(args.security_sme, Bool(FALSE)))
  IN [trace_ids |-> {id},
      task |-> args.task,
      lines |->
        <<(IF smeEnabled THEN "SME Quality Gates: ENABLED"
                            ELSE "SME Quality Gates: DISABLED"),
          (IF securitySme THEN "Security SME: ENABLED"
                           ELSE "Security SME: DISABLED"),
          "### Phase 0", "### Phase 1", "### Phase 2">>
        \o (IF smeEnabled \/ securitySme
              THEN <<"### Phase 2.5">>
                     \o (IF securitySme THEN <<"- Security SME (ENABLED)">>
                                        ELSE <<>>)
              ELSE <<>>)
        \o <<"### Phase 3", "### Phase 4">>
        \o (IF smeEnabled THEN <<"5. SME Reviews">> ELSE <<>>)
        \o (IF securitySme THEN <<"- Security SME Specification">>
                           ELSE <<>>)]

\* the instruction text as far as it depends on its arguments: the trace
\* IDs it quotes, the task, and of its lines the two of Configuration, the
\* headings of the phases and the lines written under a condition
buildOriWorkflowInstructions(args, id) ==
  LET smeEnabled == TruthyValue(Nullish(args.sme_enabled, Bool(FALSE)))
      securitySme == TruthyValue(Nullish(args.security_sme, Bool(FALSE)))
  IN [trace_ids |-> {id},
      task |-> args.task,
      lines |->
        <<(IF smeEnabled THEN "SME Quality Gates: ENABLED"
                            ELSE "SME Quality Gates: DISABLED"),
          (IF securitySme THEN "Security SME: ENABLED"
                           ELSE "Security SME: DISABLED"),
          "### Phase 0", "### Phase 1", "### Phase 2">>
        \o (IF smeEnabled
              THEN <<"### Phase 2.5">>
                     \o (IF securitySme THEN <<"- Security SME (ENABLED)">>
                                        ELSE <<>>)
              ELSE <<>>)
        \o <<"### Phase 3", "### Phase 4">>
        \o (IF smeEnabled THEN <<"5. SME Reviews">> ELSE <<>>)
        \o (IF securitySme THEN <<"- Security SME Specification">>
                           ELSE <<>>)]

\* what registerTools returns
ToolNames == {"execute_ori", "validate_config", "analyze_task"}

\* the properties every object inherits from Object.prototype, as far as
\* they are told apart here: called as a plain function, toString returns a
\* string, constructor returns its argument and hasOwnProperty throws
InheritedNames == {"toString", "constructor", "hasOwnProperty"}

\* tools[name]: "handler" for a registered tool, "inherited" for a property
\* of Object.prototype, "undefined" otherwise
ToolLookup(name) ==
  IF name \in ToolNames THEN "handler"
  ELSE IF name \in InheritedNames THEN "inherited"
  ELSE "undefined"

\* the values of sme_enabled and security_sme in calls
Switches == {Undefined, Bool(TRUE), Bool(FALSE)}

\* a call of a tool by name, with arguments still to be filled in
Call(name) ==
  [NoRequest EXCEPT !.method = "tools/call", !.tool = name, !.args = TRUE]

\* "add JWT authentication"
ExecuteTask == Join(<< <<"add">>, <<"JWT">>, <<"auth", "entication">> >>)

\* calls of execute_ori: with a task, and without one or with a number
ExecuteRequests ==
  {[Call("execute_ori") EXCEPT !.task_type = "string", !.task = ExecuteTask,
                               !.trace = t, !.sme_enabled = a,
                               !.security_sme = b] :
     t \in TraceArgs, a \in Switches, b \in Switches}
    \cup {[Call("execute_ori") EXCEPT !.task_type = k, !.trace = t] :
            k \in {"undefined", "number"}, t \in TraceArgs}

\* calls of analyze_task: with a text, and without one or with a number
AnalyzeRequests ==
  {[Call("analyze_task") EXCEPT !.task_type = "string", !.task = t] :
     t \in Texts}
    \cup {[Call("analyze_task") EXCEPT !.task_type = k] :
            k \in {"undefined", "number"}}

\* calls without arguments, and calls of names that are no tool
OtherCalls ==
  {[Call(n) EXCEPT !.args = FALSE] : n \in ToolNames}
    \cup {[Call(n) EXCEPT !.args = a] :
            n \in InheritedNames \cup {"unknown_tool"}, a \in BOOLEAN}

(***************************************************************************)
(* validate_config: the schema of a configuration and the handler.         *)
(***************************************************************************)
\* runs of decimal digits
DigitRuns == {"0", "1", "2", "10"}

\* /^\d+\.\d+\.\d+$/ on a string whose pieces are runs of digits, single
\* dots and runs of other characters
VersionPattern(s) ==
  /\ Len(s) = 5
  /\ s[1] \in DigitRuns /\ s[3] \in DigitRuns /\ s[5] \in DigitRuns
  /\ s[2] = "." /\ s[4] = "."

\* z.boolean(): the issues, each the path of the value
zBoolean(v, path) == IF v.type = "boolean" THEN {} ELSE {path}

\* z.string().optional()
zOptionalString(v, path) ==
  IF v.type \in {"undefined", "string"} THEN {} ELSE {path}

\* z.string().regex(...)
zVersion(v, path) ==
  IF v.type = "string" /\ VersionPattern(v.str) THEN {} ELSE {path}

\* z.object({enabled: z.boolean(), ...}).optional()
zOptionalSection(o, path) ==
  IF o.type = "undefined" THEN {}
  ELSE IF o.type # "object" THEN {path}
  ELSE zBoolean(o.enabled, path \o <<"enabled">>)

\* sme_agents
zSmeAgents(o, path) ==
  IF o.type # "object" THEN {path}
  ELSE zBoolean(o.enabled, path \o <<"enabled">>)
         \cup zOptionalSection(o.security, path \o <<"security">>)
         \cup zOptionalSection(o.compliance, path \o <<"compliance">>)
         \cup zOptionalSection(o.code_quality, path \o <<"code_quality">>)
         \cup zOptionalSection(o.performance, path \o <<"performance">>)

\* logging
zLogging(o, path) ==
  IF o.type = "undefined" THEN {}
  ELSE IF o.type # "object" THEN {path}
  ELSE zBoolean(o.enabled, path \o <<"enabled">>)
         \cup zOptionalString(o.log_directory, path \o <<"log_directory">>)

\* OriConfigSchema.safeParse: the paths of the issues, none on success
OriConfigSchema(doc) ==
  IF doc.type # "object" THEN {<<>>}
  ELSE zVersion(doc.version, <<"version">>)
         \cup zSmeAgents(doc.sme_agents, <<"sme_agents">>)
         \cup zOptionalSection(doc.safety_hooks, <<"safety_hooks">>)
         \cup zLogging(doc.logging, <<"logging">>)

\* o?.enabled as a condition
OptionalEnabled(o) == o.type = "object" /\ TruthyValue(o.enabled)

NoSmeWarning ==
  "sme_agents.enabled is true but no specific SME agents are enabled"

LogDirectoryWarning ==
  "Logging enabled but log_directory not specified (will use default)"

\* the SME warning given whether or not sme_agents.enabled is set
ConfigWarningsAlways(doc) ==
  (IF ~(\/ OptionalEnabled(doc.sme_agents.security)
        \/ OptionalEnabled(doc.sme_agents.compliance)
        \/ OptionalEnabled(doc.sme_agents.code_quality)
        \/ OptionalEnabled(doc.sme_agents.performance))
     THEN <<NoSmeWarning>> ELSE <<>>)
  \o (IF /\ OptionalEnabled(doc.logging)
         /\ ~TruthyValue(doc.logging.log_directory)
        THEN <<LogDirectoryWarning>> ELSE <<>>)

\* the warnings about a valid configuration, in the order they are pushed
ConfigWarnings(doc) ==
  (IF /\ TruthyValue(doc.sme_agents.enabled)
      /\ ~(\/ OptionalEnabled(doc.sme_agents.security)
           \/ OptionalEnabled(doc.sme_agents.compliance)
           \/ OptionalEnabled(doc.sme_agents.code_quality)
           \/ OptionalEnabled(doc.sme_agents.performance))
     THEN <<NoSmeWarning>> ELSE <<>>)
  \o (IF /\ OptionalEnabled(doc.logging)
         /\ ~TruthyValue(doc.logging.log_directory)
        THEN <<LogDirectoryWarning>> ELSE <<>>)

\* a result that is an error message and nothing else
ErrorResult(text) == [NoResponse EXCEPT !.isError = TRUE, !.text = text]

\* a document that fails the schema reported as valid
CheckConfigLenient(doc) ==
  [NoResponse EXCEPT !.text = "Configuration is valid",
                     !.valid = "true",
                     !.warnings = <<>>]

\* the schema applied to the parsed document and the result built from it
CheckConfig(doc) ==
  LET issues == OriConfigSchema(doc)
  IN IF issues = {}
       THEN [NoResponse EXCEPT !.text = "Configuration is valid",
                               !.valid = "true",
                               !.warnings = ConfigWarnings(doc)]
       ELSE [NoResponse EXCEPT !.isError = TRUE,
                               !.text = "Configuration is invalid",
                               !.valid = "false",
                               !.errors = issues]

\* JSON.parse and what follows it
ParseConfig(content) ==
  IF content.json = "document" THEN CheckConfig(content.doc)
  ELSE ErrorResult("Invalid JSON")

\* config_content looked at before config_path
validateConfigContentFirst(args) ==
  IF args.config_content.json \notin {"undefined", "empty"}
    THEN ParseConfig(args.config_content)
  ELSE IF args.config_path.kind = "path"
    THEN IF args.config_path.file.json = "unreadable"
           THEN ErrorResult("Error validating config")
           ELSE ParseConfig(args.config_path.file)
  ELSE ErrorResult("Either config_path or config_content must be provided")

\* the try block of validateConfigTool with its catch
validateConfigTool(args) ==
  IF args.config_path.kind = "path"
    THEN IF args.config_path.file.json = "unreadable"
           THEN ErrorResult("Error validating config")
           ELSE ParseConfig(args.config_path.file)
  ELSE IF args.config_content.json \notin {"undefined", "empty"}
    THEN ParseConfig(args.config_content)
  ELSE ErrorResult("Either config_path or config_content must be provided")

\* the values of version in documents: none, a number, "1.2.0", "1.2" and
\* "1.2.0-beta"
VersionValues ==
  {Undefined, Num,
   Str(<<"1", ".", "2", ".", "0">>),
   Str(<<"1", ".", "2">>),
   Str(<<"1", ".", "2", ".", "0", "-beta">>)}

Section(enabled) == [type |-> "object", enabled |-> enabled]

\* an SME sub-config that is there: enabled true, false, missing or "yes"
PresentSections ==
  {Section(e) : e \in {Bool(TRUE), Bool(FALSE), Undefined, Str(<<"yes">>)}}

\* the keys of the SME sub-configs in sme_agents
SmeConfigNames == {"security", "compliance", "code_quality", "performance"}

\* the sub-configs of sme_agents, at most MaxSmeConfigs of them there
SmeConfigs ==
  {f \in [SmeConfigNames -> PresentSections \cup {NoSub}] :
     Cardinality({n \in SmeConfigNames : f[n] # NoSub}) <= MaxSmeConfigs}

\* sme_agents: absent, a string, or an object
SmeAgentsValues ==
  {NoSmeAgents, [NoSmeAgents EXCEPT !.type = "string"]}
    \cup {[type |-> "object", enabled |-> e, security |-> f["security"],
           compliance |-> f["compliance"],
           code_quality |-> f["code_quality"],
           performance |-> f["performance"]] :
            e \in {Bool(TRUE), Bool(FALSE), Undefined, Str(<<"yes">>)},
            f \in SmeConfigs}

SafetyHooksValues == {NoSub, Section(Bool(TRUE)), Section(Undefined)}

\* logging: absent, null, or an object; log_directory absent, "", "logs"
\* or a number
LoggingValues ==
  {NoLogging, [NoLogging EXCEPT !.type = "null"]}
    \cup {[type |-> "object", enabled |-> e, log_directory |-> Undefined] :
            e \in {Bool(FALSE), Undefined}}
    \cup {[type |-> "object", enabled |-> Bool(TRUE), log_directory |-> d] :
            d \in {Undefined, Str(<<>>), Str(<<"logs">>), Num}}
    \cup {[type |-> "object", enabled |-> Bool(FALSE),
           log_directory |-> Str(<<"logs">>)]}

\* the documents JSON.parse can return: objects, and null, an array and a
\* string
ConfigDocs ==
  {[type |-> "object", version |-> v, sme_agents |-> s, safety_hooks |-> h,
    logging |-> l] :
     v \in VersionValues, s \in SmeAgentsValues, h \in SafetyHooksValues,
     l \in LoggingValues}
    \cup {[NoDoc EXCEPT !.type = t] : t \in {"null", "array", "string"}}

\* {"version": "1.2.0", "sme_agents": {"enabled": true}}
MinimalConfig ==
  [NoDoc EXCEPT !.type = "object",
                !.version = Str(<<"1", ".", "2", ".", "0">>),
                !.sme_agents = [NoSmeAgents EXCEPT !.type = "object",
                                                   !.enabled = Bool(TRUE)]]

\* {"sme_agents": {"enabled": false, "security": {"enabled": true}}}
NoVersionConfig ==
  [NoDoc EXCEPT !.type = "object",
                !.sme_agents = [NoSmeAgents EXCEPT
                                  !.type = "object",
                                  !.enabled = Bool(FALSE),
                                  !.security = Section(Bool(TRUE))]]

Document(doc) == [json |-> "document", doc |-> doc]

\* what may stand behind config_path and in config_content when both are
\* looked at
ContentSamples ==
  {Document(MinimalConfig), Document(NoVersionConfig),
   [NoContent EXCEPT !.json = "malformed"]}

ConfigPaths ==
  {NoPath, [NoPath EXCEPT !.kind = "empty"]}
    \cup {[kind |-> "path", file |-> f] :
            f \in ContentSamples \cup {[NoContent EXCEPT !.json = "empty"],
                                      [NoContent EXCEPT
                                         !.json = "unreadable"]}}

ConfigContents ==
  {NoContent, [NoContent EXCEPT !.json = "empty"]} \cup ContentSamples

\* calls of validate_config: every document as config_content, and the
\* combinations of config_path and config_content
ValidateRequests ==
  {[Call("validate_config") EXCEPT !.config_content = Document(d)] :
     d \in ConfigDocs}
    \cup {[Call("validate_config") EXCEPT !.config_path = p,
                                          !.config_content = c] :
            p \in ConfigPaths, c \in ConfigContents}

(***************************************************************************)
(* Resources.                                                              *)
(***************************************************************************)
\* registerStaticResources: the URIs, in the order of the list
StaticUris ==
  << <<"docs://ori/workflow">>, <<"docs://ori/agents/taxonomy">>,
     <<"docs://ori/agents/sme-security">>, <<"schema://ori/config">>,
     <<"schema://ori/handoff-packet">> >>

\* registerDynamicResources: the URI templates, cut at the variable
DynamicUriTemplates ==
  << <<"logs://workflow/", "{traceId}", "/execution">>,
     <<"logs://workflow/", "{traceId}", "/handoff-packets">>,
     <<"logs://workflow/", "{traceId}", "/sme-reviews">> >>

\* the list looked up in the templates as well
findResourceOrTemplate(uri) ==
  LET matches(t) == Len(uri) = 3 /\ uri[1] = t[1] /\ uri[3] = t[3]
  IN IF \E i \in 1..Len(StaticUris) : StaticUris[i] = uri
       THEN uri
     ELSE IF \E i \in 1..Len(DynamicUriTemplates) :
               matches(DynamicUriTemplates[i])
       THEN uri
     ELSE <<>>

\* staticResources.find(r => r.uri === uri): the resource's URI, <<>> for
\* undefined
findResource(uri) ==
  IF \E i \in 1..Len(StaticUris) : StaticUris[i] = uri THEN uri ELSE <<>>

\* the URIs clients ask for: the static ones, one of them in capitals and
\* one with a slash added, the templates and what they stand for with two
\* trace IDs, and a URI of no resource
RequestedUris ==
  Range(StaticUris) \cup Range(DynamicUriTemplates)
    \cup {<<t[1], id, t[3]>> :
            t \in Range(DynamicUriTemplates),
            id \in {"0b8f9d3e-5c1a-4e7b-9a2d-6f4c8e1b7a90", "trace-1"}}
    \cup {<<"DOCS://ORI/WORKFLOW">>, <<"docs://ori/workflow", "/">>,
          <<"docs://ori/unknown">>}

ResourceRequests ==
  {[NoRequest EXCEPT !.method = "resources/list"],
   [NoRequest EXCEPT !.method = "resources/templates/list"]}
    \cup {[NoRequest EXCEPT !.method = "resources/read", !.uri = u] :
            u \in RequestedUris}

(***************************************************************************)
(* One request handled by the server.                                      *)
(***************************************************************************)
InitTools ==
  /\ WorkflowIdle /\ GateIdle /\ AgentIdle /\ ServerIdle
  /\ req \in ExecuteRequests \cup AnalyzeRequests \cup ValidateRequests
               \cup OtherCalls \cup ResourceRequests
  /\ pc = "called"
  /\ traceId = NoTrace
  /\ resp = NoResponse

Calling(name) ==
  pc = "called" /\ req.method = "tools/call" /\ req.tool = name

\* tools[name] is undefined: throw new Error(`Unknown tool: ${name}`)
UnknownTool ==
  /\ pc = "called" /\ req.method = "tools/call"
  /\ ToolLookup(req.tool) = "undefined"
  /\ resp' = [NoResponse EXCEPT !.thrown = "Unknown tool"]
  /\ pc' = "thrown"
  /\ UNCHANGED <<workflowVars, gateVars, agentVars, serverVars, req,
                 traceId>>

\* tools[name] is a function of Object.prototype and is called with the
\* arguments: hasOwnProperty throws; toString returns a string and
\* constructor its argument, neither with content or isError
InheritedCall ==
  /\ pc = "called" /\ req.method = "tools/call"
  /\ ToolLookup(req.tool) = "inherited"
  /\ IF req.tool = "hasOwnProperty"
       THEN /\ resp' = [NoResponse EXCEPT !.thrown = "TypeError"]
            /\ pc' = "thrown"
       ELSE /\ resp' = NoResponse
            /\ pc' = "returned"
  /\ UNCHANGED <<workflowVars, gateVars, agentVars, serverVars, req,
                 traceId>>

\* a handler called without arguments reads a property of undefined
NoArguments ==
  /\ pc = "called" /\ req.method = "tools/call"
  /\ ToolLookup(req.tool) = "handler"
  /\ ~req.args
  /\ resp' = [NoResponse EXCEPT !.thrown = "TypeError"]
  /\ pc' = "thrown"
  /\ UNCHANGED <<workflowVars, gateVars, agentVars, serverVars, req,
                 traceId>>

\* executeOriTool up to the log: the trace ID is generated or validated
ExecuteStart ==
  /\ Calling("execute_ori") /\ req.args
  /\ IF Truthy(req.trace) /\ isValidTraceId(req.trace)
       THEN traceId' = req.trace
       ELSE traceId' \in GeneratedIds
  /\ pc' = "started"
  /\ UNCHANGED <<workflowVars, gateVars, agentVars, serverVars, req, resp>>

\* the log before the try: args.task.substring of what is no string
ExecuteThrows ==
  /\ pc = "started"
  /\ req.task_type # "string"
  /\ resp' = [NoResponse EXCEPT !.thrown = "TypeError"]
  /\ pc' = "thrown"
  /\ UNCHANGED <<workflowVars, gateVars, agentVars, serverVars, req,
                 traceId>>

\* the try block runs through: instructions, feedback URL, _meta
ExecuteReturns ==
  /\ pc = "started"
  /\ req.task_type = "string"
  /\ LET text == buildOriWorkflowInstructions(req, traceId)
     IN resp' = [NoResponse EXCEPT !.text = "ORI Workflow Execution",
                                   !.text_trace_ids = text.trace_ids,
                                   !.lines = text.lines,
                                   !.meta_trace_id = traceId,
                                   !.feedback_url_trace_id = traceId]
  /\ pc' = "returned"
  /\ UNCHANGED <<workflowVars, gateVars, agentVars, serverVars, req,
                 traceId>>

\* the catch block: the error text and _meta.trace_id
ExecuteFails ==
  /\ pc = "started"
  /\ req.task_type = "string"
  /\ resp' = [ErrorResult("Error executing ORI workflow")
                EXCEPT !.meta_trace_id = traceId]
  /\ pc' = "returned"
  /\ UNCHANGED <<workflowVars, gateVars, agentVars, serverVars, req,
                 traceId>>

\* analyzeTaskTool: args.task.length of undefined throws before the try; in
\* the try, toLowerCase of a number throws and the catch returns the error;
\* the analysis of a string is returned as _meta
AnalyzeTask ==
  /\ Calling("analyze_task") /\ req.args
  /\ CASE req.task_type = "undefined" ->
            /\ resp' = [NoResponse EXCEPT !.thrown = "TypeError"]
            /\ pc' = "thrown"
       [] req.task_type = "number" ->
            /\ resp' = ErrorResult("Error analyzing task")
            /\ pc' = "returned"
       [] OTHER ->
            /\ resp' = [NoResponse EXCEPT !.text = "Task Analysis",
                                          !.analysis = analyzeTask(req.task)]
            /\ pc' = "returned"
  /\ UNCHANGED <<workflowVars, gateVars, agentVars, serverVars, req,
                 traceId>>

\* validateConfigTool
ValidateConfig ==
  /\ Calling("validate_config") /\ req.args
  /\ resp' = validateConfigTool(req)
  /\ pc' = "returned"
  /\ UNCHANGED <<workflowVars, gateVars, agentVars, serverVars, req,
                 traceId>>

\* the CallTool handler returns what the tool has returned
CallToolReturns ==
  /\ pc = "returned" /\ req.method = "tools/call"
  /\ pc' = "done"
  /\ UNCHANGED <<workflowVars, gateVars, agentVars, serverVars, req,
                 traceId, resp>>

\* the catch of the CallTool handler: `Error executing ${name}: ...`
CallToolCatches ==
  /\ pc = "thrown" /\ req.method = "tools/call"
  /\ resp' = ErrorResult("Error executing tool")
  /\ pc' = "done"
  /\ UNCHANGED <<workflowVars, gateVars, agentVars, serverVars, req,
                 traceId>>

\* the ListResources handler
ListResources ==
  /\ pc = "called" /\ req.method = "resources/list"
  /\ resp' = [NoResponse EXCEPT !.text = "resources",
                                !.uris = Range(StaticUris)]
  /\ pc' = "done"
  /\ UNCHANGED <<workflowVars, gateVars, agentVars, serverVars, req,
                 traceId>>

\* the ListResourceTemplates handler
ListResourceTemplates ==
  /\ pc = "called" /\ req.method = "resources/templates/list"
  /\ resp' = [NoResponse EXCEPT !.text = "resourceTemplates",
                                !.uris = Range(DynamicUriTemplates)]
  /\ pc' = "done"
  /\ UNCHANGED <<workflowVars, gateVars, agentVars, serverVars, req,
                 traceId>>

\* the ReadResource handler: the resource is looked up and read; its catch
\* throws the error again
ReadResource ==
  /\ pc = "called" /\ req.method = "resources/read"
  /\ IF findResource(req.uri) = <<>>
       THEN resp' = [NoResponse EXCEPT !.thrown = "Resource not found"]
       ELSE \E readable \in BOOLEAN :
              resp' = IF readable
                        THEN [NoResponse EXCEPT !.text = "contents",
                                                !.uris = {req.uri},
                                                !.contents = req.uri]
                        ELSE [NoResponse EXCEPT !.thrown = "ENOENT"]
  /\ pc' = "done"
  /\ UNCHANGED <<workflowVars, gateVars, agentVars, serverVars, req,
                 traceId>>

NextTools ==
  \/ UnknownTool
  \/ InheritedCall
  \/ NoArguments
  \/ ExecuteStart
  \/ ExecuteThrows
  \/ ExecuteReturns
  \/ ExecuteFails
  \/ AnalyzeTask
  \/ ValidateConfig
  \/ CallToolReturns
  \/ CallToolCatches
  \/ ListResources
  \/ ListResourceTemplates
  \/ ReadResource

SpecTools == InitTools /\ [][NextTools]_vars

(***************************************************************************)
(* Startup of the server: main() and what follows it.                      *)
(***************************************************************************)
\* process.env.ENABLE_SYNC: not set, or a string
EnvValues == {"unset", "", "true", "TRUE", "false", "1"}

\* the request handlers in the order main() registers them
HandlerOrder ==
  <<"ListTools", "CallTool", "ListResources", "ListResourceTemplates",
    "ReadResource">>

\* the events of the file watcher that are logged
WatcherEvents == {"add", "change", "unlink"}

\* sync initialised whenever ENABLE_SYNC is a non-empty string
SyncEnabledIfSet(e) == e \notin {"unset", ""}

\* process.env.ENABLE_SYNC === "true"
SyncEnabled(e) == e = "true"

InitStartup ==
  /\ WorkflowIdle /\ GateIdle /\ AgentIdle /\ ToolIdle
  /\ env \in EnvValues
  /\ mainPc = "register"
  /\ handlers = <<>>
  /\ sync = "none"
  /\ watcher = FALSE
  /\ fileEvents = <<>>
  /\ connected = FALSE
  /\ exitCode = -1

\* server.setRequestHandler, one call after the other
RegisterHandler ==
  /\ mainPc = "register"
  /\ handlers' = Append(handlers, HandlerOrder[Len(handlers) + 1])
  /\ mainPc' = IF Len(handlers') = Len(HandlerOrder) THEN "sync"
                                                     ELSE "register"
  /\ UNCHANGED <<workflowVars, gateVars, agentVars, toolVars, env, sync,
                 watcher, fileEvents, connected, exitCode>>

\* ENABLE_SYNC is not "true": initSync is not called
SkipSync ==
  /\ mainPc = "sync"
  /\ ~SyncEnabled(env)
  /\ mainPc' = "connect"
  /\ UNCHANGED <<workflowVars, gateVars, agentVars, toolVars, env,
                 handlers, sync, watcher, fileEvents, connected, exitCode>>

\* await initSync(): watchFiles starts the file watcher
InitSyncDone ==
  /\ mainPc = "sync"
  /\ SyncEnabled(env)
  /\ sync' = "initialized"
  /\ watcher' = TRUE
  /\ mainPc' = "connect"
  /\ UNCHANGED <<workflowVars, gateVars, agentVars, toolVars, env,
                 handlers, fileEvents, connected, exitCode>>

\* initSync logs the error of watchFiles and throws it again: main() is
\* rejected
InitSyncFails ==
  /\ mainPc = "sync"
  /\ SyncEnabled(env)
  /\ sync' = "failed"
  /\ mainPc' = "rejected"
  /\ UNCHANGED <<workflowVars, gateVars, agentVars, toolVars, env,
                 handlers, watcher, fileEvents, connected, exitCode>>

\* await server.connect(transport)
Connect ==
  /\ mainPc = "connect"
  /\ connected' = TRUE
  /\ mainPc' = "running"
  /\ UNCHANGED <<workflowVars, gateVars, agentVars, toolVars, env,
                 handlers, sync, watcher, fileEvents, exitCode>>

\* server.connect throws: main() is rejected
ConnectFails ==
  /\ mainPc = "connect"
  /\ mainPc' = "rejected"
  /\ UNCHANGED <<workflowVars, gateVars, agentVars, toolVars, env,
                 handlers, sync, watcher, fileEvents, connected, exitCode>>

\* main().catch: process.exit(1)
ExitOnRejection ==
  /\ mainPc = "rejected"
  /\ exitCode' = 1
  /\ mainPc' = "exited"
  /\ UNCHANGED <<workflowVars, gateVars, agentVars, toolVars, env,
                 handlers, sync, watcher, fileEvents, connected>>

\* the handlers of uncaughtException and unhandledRejection: process.exit(1)
ExitOnUncaught ==
  /\ mainPc = "running"
  /\ exitCode' = 1
  /\ mainPc' = "exited"
  /\ UNCHANGED <<workflowVars, gateVars, agentVars, toolVars, env,
                 handlers, sync, watcher, fileEvents, connected>>

\* the file watcher reports a file added, changed or removed
FileEvent ==
  /\ watcher
  /\ mainPc # "exited"
  /\ Len(fileEvents) < MaxEvents
  /\ \E e \in WatcherEvents : fileEvents' = Append(fileEvents, e)
  /\ UNCHANGED <<workflowVars, gateVars, agentVars, toolVars, env, mainPc,
                 handlers, sync, watcher, connected, exitCode>>

NextStartup ==
  \/ RegisterHandler
  \/ SkipSync
  \/ InitSyncDone
  \/ InitSyncFails
  \/ Connect
  \/ ConnectFails
  \/ ExitOnRejection
  \/ ExitOnUncaught
  \/ FileEvent

SpecStartup == InitStartup /\ [][NextStartup]_vars

(***************************************************************************)
(* Properties of the tool handlers (checked under SpecTools).              *)
(***************************************************************************)
IsUuidV4(t) ==
  t.kind = "uuid" /\ t.version = "4" /\ t.variant \in {"8", "9", "a", "b"}

Executing ==
  /\ req.tool = "execute_ori"
  /\ pc \in {"started", "returned", "thrown", "done"}
  /\ req.args

Analyzed ==
  /\ req.tool = "analyze_task" /\ pc = "done"
  /\ req.args /\ req.task_type = "string"

TaskLower == toLowerCase(req.task)

HasHigh == \E kw \in HighIndicators : includes(TaskLower, kw)

HasLow == \E kw \in LowIndicators : includes(TaskLower, kw)

\* C15: complexity is HIGH if a high-complexity keyword occurs in the text,
\* in either case, wherever it stands and whatever else occurs; LOW if none
\* does and a low-complexity keyword occurs; MEDIUM otherwise; "refactor
\* the entire auth module" is HIGH
C15_Complexity ==
  Analyzed =>
    /\ resp.analysis.complexity
         = (IF HasHigh THEN "HIGH" ELSE IF HasLow THEN "LOW" ELSE "MEDIUM")
    /\ req.task = RefactorAuthText => resp.analysis.complexity = "HIGH"

\* "fix Refactor": a low keyword first, a capitalised high keyword after it
C15_Witness ==
  /\ Analyzed
  /\ req.task = Join(<< <<"fix">>, <<"Refactor">> >>)
  /\ resp.analysis.complexity = "HIGH"

DomainOrder ==
  <<"Security/Auth", "API/Backend", "Frontend/UI", "DevOps/Infrastructure",
    "Data/Analytics", "Testing">>

MatchingDomains == {k \in 1..Len(DomainOrder) : DomainMatches(TaskLower, k)}

\* C16: the domain is the first one of Security/Auth, API/Backend,
\* Frontend/UI, DevOps/Infrastructure, Data/Analytics, Testing with a
\* keyword in the text, wherever the keywords stand; it is General exactly
\* when no domain has one
C16_Domain ==
  Analyzed =>
    /\ MatchingDomains # {} =>
         \E k \in MatchingDomains :
           /\ \A m \in MatchingDomains : k <= m
           /\ resp.analysis.domain = DomainOrder[k]
    /\ resp.analysis.domain = "General" <=> MatchingDomains = {}

\* "test api JWT": the keywords stand in the reverse of the domain order
C16_Witness ==
  /\ Analyzed
  /\ req.task = Join(<< <<"test">>, <<"api">>, <<"JWT">> >>)
  /\ resp.analysis.domain = "Security/Auth"

Bit(b) == IF b THEN 1 ELSE 0

\* a capitalised identifier of two or more words, such as UserProfile,
\* stands in t between word boundaries
HasMultiWordIdentifier(t) ==
  \E i \in 1..Len(t) : \E j \in (i + 1)..Len(t) :
    /\ \A k \in i..j : Capitalized(t[k])
    /\ Bounded(t, i, j)

\* the claim of C17, read as a statement of the clarity score of every
\* analysed task: 5, plus 2 for an action verb, plus 1 for a capitalised
\* identifier in the task text, minus 1 for a vague term, plus 1 for
\* "using" or "with", within 0..10
C17_Original ==
  Analyzed =>
    resp.analysis.clarity_score
      = Max(0, Min(10, 5 + 2 * Bit(matchWord(TaskLower, ActionVerbs))
                         + Bit(HasMultiWordIdentifier(req.task))
                         - Bit(matchWord(TaskLower, VagueTerms))
                         + Bit(includes(TaskLower, <<"using">>)
                                 \/ includes(TaskLower, <<"with">>))))

FlagOrder == <<"security", "privacy", "compliance", "policy">>

FlagTerms == <<SecurityTerms, PrivacyTerms, ComplianceTerms, PolicyTerms>>

FlagIndex(f) == CHOOSE k \in 1..Len(FlagOrder) : FlagOrder[k] = f

\* C18: risk_flags lists, in the order security, privacy, compliance,
\* policy and without repetition, exactly the flags whose own keyword set
\* matches the text, whatever the other three do and wherever the matches
\* stand
C18_RiskFlags ==
  Analyzed =>
    LET flags == resp.analysis.risk_flags
    IN /\ Range(flags) \subseteq Range(FlagOrder)
       /\ \A k \in 1..Len(FlagOrder) :
            FlagOrder[k] \in Range(flags)
              <=> matchWord(TaskLower, FlagTerms[k])
       /\ \A i, j \in 1..Len(flags) :
            i < j => FlagIndex(flags[i]) < FlagIndex(flags[j])

\* "sensitive compliance privacy JWT": four flags, matched in the reverse
\* of their order
C18_Witness ==
  /\ Analyzed
  /\ req.task = AllFlagsText
  /\ resp.analysis.risk_flags = FlagOrder

FlaggedBefore(flags, a, b) ==
  \E i, j \in 1..Len(flags) : i < j /\ flags[i] = a /\ flags[j] = b

\* the claim of C19: "add JWT authentication with bcrypt" is flagged
\* security, and "update privacy policy for GDPR" is flagged privacy and,
\* after it, compliance
C19_Original ==
  Analyzed =>
    /\ req.task = JwtBcryptText
         => "security" \in Range(resp.analysis.risk_flags)
    /\ req.task = GdprPolicyText
         => FlaggedBefore(resp.analysis.risk_flags, "privacy", "compliance")

\* C20: recommended_model is opus exactly when complexity is HIGH or there
\* is a risk flag; otherwise sonnet for MEDIUM and haiku for LOW
C20_RecommendedModel ==
  Analyzed =>
    LET a == resp.analysis
        heavy == a.complexity = "HIGH" \/ a.risk_flags # <<>>
    IN /\ a.recommended_model = "opus" <=> heavy
       /\ a.recommended_model = "sonnet"
            <=> (~heavy /\ a.complexity = "MEDIUM")
       /\ a.recommended_model = "haiku" <=> (~heavy /\ a.complexity = "LOW")

\* "fix JWT": LOW complexity with the security flag is given opus
C20_Witness ==
  /\ Analyzed
  /\ resp.analysis.complexity = "LOW"
  /\ resp.analysis.risk_flags = <<"security">>
  /\ resp.analysis.recommended_model = "opus"

\* C21: estimated_duration_minutes is 3, 5 or 8 for LOW, MEDIUM or HIGH
\* complexity, plus 2 if there is a risk flag, however many there are: one
\* of 3, 5, 7, 8, 10
C21_Duration ==
  Analyzed =>
    LET a == resp.analysis
        base == IF a.complexity = "LOW" THEN 3
                ELSE IF a.complexity = "MEDIUM" THEN 5 ELSE 8
    IN /\ a.complexity \in {"LOW", "MEDIUM", "HIGH"}
       /\ a.estimated_duration_minutes
            = base + (IF a.risk_flags # <<>> THEN 2 ELSE 0)
       /\ a.estimated_duration_minutes \in {3, 5, 7, 8, 10}

\* "sensitive compliance privacy JWT": MEDIUM with four flags takes 7
C21_Witness ==
  /\ Analyzed
  /\ Len(resp.analysis.risk_flags) = 4
  /\ resp.analysis.complexity = "MEDIUM"
  /\ resp.analysis.estimated_duration_minutes = 7

\* the least length of task the input schema of analyze_task declares
MinTaskLength == 10

\* C23: analyze_task with a task shorter than 10 characters, the empty one
\* included, fails and returns no analysis; with a task of 10 characters or
\* more it returns an analysis and does not fail
C23_Original ==
  Analyzed =>
    IF StringLength(req.task) < MinTaskLength
      THEN resp.isError /\ resp.analysis = NoAnalysis
      ELSE ~resp.isError /\ resp.analysis # NoAnalysis

\* validate_config has returned about a document handed in as
\* config_content, no config_path given
Validated ==
  /\ req.tool = "validate_config" /\ pc = "done" /\ req.args
  /\ req.config_path = NoPath
  /\ req.config_content.json = "document"

ConfigDoc == req.config_content.doc

\* strings of the form digits.digits.digits
VersionStrings ==
  {<<a, ".", b, ".", c>> : a \in DigitRuns, b \in DigitRuns,
                           c \in DigitRuns}

IsBoolean(v) == v.type = "boolean"

\* an object that, if it is there, is no object or has no boolean enabled
BadSection(o) ==
  o.type # "undefined" /\ (o.type # "object" \/ ~IsBoolean(o.enabled))

\* the document violates the structural schema
ViolatesSchema(doc) ==
  \/ doc.type # "object"
  \/ doc.version.type # "string"
  \/ doc.version.str \notin VersionStrings
  \/ doc.sme_agents.type # "object"
  \/ ~IsBoolean(doc.sme_agents.enabled)
  \/ BadSection(doc.sme_agents.security)
  \/ BadSection(doc.sme_agents.compliance)
  \/ BadSection(doc.sme_agents.code_quality)
  \/ BadSection(doc.sme_agents.performance)
  \/ BadSection(doc.safety_hooks)
  \/ BadSection(doc.logging)
  \/ doc.logging.log_directory.type \notin {"undefined", "string"}

\* C24: validate_config reports valid=false with errors, and isError, if
\* and only if the document violates the structural schema, and valid=true
\* otherwise; warnings are given for valid documents only and leave valid
\* true
C24_ValidIffSchema ==
  Validated =>
    /\ resp.valid \in {"true", "false"}
    /\ resp.valid = "false" <=> ViolatesSchema(ConfigDoc)
    /\ resp.valid = "false" =>
         resp.errors # {} /\ resp.isError /\ resp.warnings = <<>>
    /\ resp.valid = "true" => resp.errors = {} /\ ~resp.isError

\* no version and a security sub-config without enabled: two errors
C24_Witness ==
  /\ Validated
  /\ resp.valid = "false"
  /\ resp.errors = {<<"version">>, <<"sme_agents", "security", "enabled">>}

IsTrue(v) == v = Bool(TRUE)

NoSmeConfigEnabled(doc) ==
  /\ ~IsTrue(doc.sme_agents.security.enabled)
  /\ ~IsTrue(doc.sme_agents.compliance.enabled)
  /\ ~IsTrue(doc.sme_agents.code_quality.enabled)
  /\ ~IsTrue(doc.sme_agents.performance.enabled)

\* C25 as stated: the logging warning if and only if logging.enabled is
\* true and log_directory is not given
C25_Original ==
  Validated /\ resp.valid = "true" =>
    /\ Range(resp.warnings) \subseteq {NoSmeWarning, LogDirectoryWarning}
    /\ NoSmeWarning \in Range(resp.warnings)
         <=> IsTrue(ConfigDoc.sme_agents.enabled)
               /\ NoSmeConfigEnabled(ConfigDoc)
    /\ LogDirectoryWarning \in Range(resp.warnings)
         <=> /\ IsTrue(ConfigDoc.logging.enabled)
             /\ ConfigDoc.logging.log_directory.type = "undefined"

\* C25: of a valid configuration, warnings holds the "no SME enabled"
\* warning if and only if sme_agents.enabled is true and no SME sub-config
\* has enabled true, and the "will use default" warning if and only if
\* logging.enabled is true and log_directory is not given or is the empty
\* string; it holds nothing else, and each warning once; the configuration
\* {"version": "1.2.0", "sme_agents": {"enabled": true}} is valid with the
\* one warning about the SMEs
C25_Warnings ==
  Validated /\ resp.valid = "true" =>
    /\ Range(resp.warnings) \subseteq {NoSmeWarning, LogDirectoryWarning}
    /\ Len(resp.warnings) = Cardinality(Range(resp.warnings))
    /\ NoSmeWarning \in Range(resp.warnings)
         <=> IsTrue(ConfigDoc.sme_agents.enabled)
               /\ NoSmeConfigEnabled(ConfigDoc)
    /\ LogDirectoryWarning \in Range(resp.warnings)
         <=> /\ IsTrue(ConfigDoc.logging.enabled)
             /\ ConfigDoc.logging.log_directory \in {Undefined, Str(<<>>)}
    /\ ConfigDoc = MinimalConfig => resp.warnings = <<NoSmeWarning>>

\* sme_agents enabled with its one sub-config disabled, and logging enabled
\* with the log directory "": both warnings
C25_Witness ==
  /\ Validated
  /\ resp.valid = "true"
  /\ resp.warnings = <<NoSmeWarning, LogDirectoryWarning>>
  /\ ConfigDoc.sme_agents.security.enabled = Bool(FALSE)
  /\ ConfigDoc.logging.log_directory = Str(<<>>)

\* a call of a tool has been answered
Answered == req.method = "tools/call" /\ pc = "done"

\* C26: every call of a tool, whatever its name and arguments, is answered
\* with a structured result, which has a text and, if the call has failed,
\* isError; no exception reaches the caller
C26_Original ==
  Answered =>
    /\ resp.thrown = "none"
    /\ resp.text # "none"
    /\ (req.tool \notin ToolNames \/ ~req.args) => resp.isError

\* what validating the file or string s yields, for the strings that are
\* handed in together with a path
Verdict(s) ==
  CASE s = Document(MinimalConfig) -> "true"
    [] s = Document(NoVersionConfig) -> "false"
    [] OTHER -> "none"

\* C27: validate_config validates the file behind a non-empty config_path,
\* whatever config_content is; without one, a non-empty config_content;
\* with neither it returns an error and validates nothing; a file that
\* cannot be read and a text that is no JSON yield an error without
\* _meta.valid; _meta.valid is true only in a result without isError
C27_InputChoice ==
  Answered /\ req.tool = "validate_config" /\ req.args =>
    LET p == req.config_path
        c == req.config_content
    IN /\ p.kind = "path" =>
            /\ resp.valid = Verdict(p.file)
            /\ p.file.json # "document" =>
                 /\ resp.isError
                 /\ resp.text = (IF p.file.json = "unreadable"
                                   THEN "Error validating config"
                                   ELSE "Invalid JSON")
       /\ p.kind # "path" /\ c.json \in {"malformed", "document"} =>
            /\ c \in ContentSamples => resp.valid = Verdict(c)
            /\ c.json = "malformed" =>
                 resp.isError /\ resp.text = "Invalid JSON"
            /\ c.json = "document" => resp.valid # "none"
       /\ p.kind # "path" /\ c.json \in {"undefined", "empty"} =>
            /\ resp.isError
            /\ resp.valid = "none"
            /\ resp.text
                 = "Either config_path or config_content must be provided"
       /\ resp.valid = "true" => ~resp.isError

\* the file holds a configuration without version and config_content a
\* valid one: the file is what is validated
C27_Witness ==
  /\ Answered /\ req.tool = "validate_config"
  /\ req.config_path.kind = "path"
  /\ req.config_path.file = Document(NoVersionConfig)
  /\ req.config_content = Document(MinimalConfig)
  /\ resp.valid = "false"
  /\ resp.errors = {<<"version">>}

\* execute_ori has returned its instruction text
Instructed ==
  /\ Answered /\ req.tool = "execute_ori"
  /\ resp.text = "ORI Workflow Execution"

IsHeading(l) ==
  l \in {"### Phase 0", "### Phase 1", "### Phase 2", "### Phase 2.5",
         "### Phase 3", "### Phase 4"}

\* where l stands in the text, 0 if nowhere
LineOf(l) ==
  IF \E i \in 1..Len(resp.lines) : resp.lines[i] = l
    THEN CHOOSE i \in 1..Len(resp.lines) : resp.lines[i] = l
    ELSE 0

\* C28: the instruction text has the sections of the phases 0, 1, 2, 3, 4
\* in this order, each once, and that of Phase 2.5 between 2 and 3 if and
\* only if config.sme_enabled is true (not if config or the switch is
\* absent); the Security SME is named in that section, and only if
\* config.security_sme is true as well
C28_GateSection ==
  Instructed =>
    /\ SelectSeq(resp.lines, IsHeading)
         = (IF IsTrue(req.sme_enabled)
              THEN <<"### Phase 0", "### Phase 1", "### Phase 2",
                     "### Phase 2.5", "### Phase 3", "### Phase 4">>
              ELSE <<"### Phase 0", "### Phase 1", "### Phase 2",
                     "### Phase 3", "### Phase 4">>)
    /\ LineOf("- Security SME (ENABLED)") # 0 =>
         /\ IsTrue(req.sme_enabled) /\ IsTrue(req.security_sme)
         /\ LineOf("### Phase 2.5") < LineOf("- Security SME (ENABLED)")
         /\ LineOf("- Security SME (ENABLED)") < LineOf("### Phase 3")

\* security_sme is true and sme_enabled is absent: the text says that the
\* Security SME is enabled and has no gate phase
C28_Witness ==
  /\ Instructed
  /\ IsTrue(req.security_sme)
  /\ req.sme_enabled = Undefined
  /\ LineOf("Security SME: ENABLED") # 0
  /\ LineOf("### Phase 2.5") = 0
  /\ LineOf("### Phase 3") # 0

\* the five URIs of the static resources
FiveUris ==
  {<<"docs://ori/workflow">>, <<"docs://ori/agents/taxonomy">>,
   <<"docs://ori/agents/sme-security">>, <<"schema://ori/config">>,
   <<"schema://ori/handoff-packet">>}

\* C29: a resource is read only under one of the five static URIs, which
\* differ from one another and are what ListResources returns; reading any
\* other URI, one made from a template of ListResourceTemplates included,
\* fails with "Resource not found", thrown to the caller and not returned
\* as a result with isError
C29_StaticOnly ==
  /\ Cardinality(FiveUris) = 5
  /\ pc = "done" /\ req.method = "resources/list" => resp.uris = FiveUris
  /\ pc = "done" /\ req.method = "resources/read" =>
       /\ resp.thrown = "none" =>
            req.uri \in FiveUris /\ resp.contents = req.uri
       /\ req.uri \notin FiveUris =>
            /\ resp.thrown = "Resource not found"
            /\ ~resp.isError
            /\ resp.text = "none"

\* logs://workflow/0b8f9d3e-5c1a-4e7b-9a2d-6f4c8e1b7a90/execution is not
\* found
C29_Witness ==
  /\ pc = "done" /\ req.method = "resources/read"
  /\ req.uri = <<"logs://workflow/",
                 "0b8f9d3e-5c1a-4e7b-9a2d-6f4c8e1b7a90", "/execution">>
  /\ resp.thrown = "Resource not found"

\* C30: the server connects to its transport only after all five request
\* handlers are registered; sync is initialised if and only if ENABLE_SYNC
\* is "true", and before the server connects; if initialising it fails the
\* server does not connect and all the process does is exit with code 1;
\* if ENABLE_SYNC is anything else no file watcher is started
C30_Startup ==
  /\ [](connected =>
          /\ handlers = <<"ListTools", "CallTool", "ListResources",
                          "ListResourceTemplates", "ReadResource">>
          /\ sync = "initialized" <=> env = "true")
  /\ [](sync # "none" => env = "true")
  /\ [](mainPc \in {"connect", "running"} /\ env = "true" =>
          sync = "initialized" /\ watcher)
  /\ [](env # "true" => ~watcher /\ fileEvents = <<>>)
  /\ [](sync = "failed" => ~connected /\ ~watcher /\ exitCode \in {-1, 1})
  /\ [][sync = "failed" => ~connected' /\ exitCode' = 1]_vars
  /\ [][connected => sync' = sync /\ handlers' = handlers]_vars

\* sync could not be initialised: the process has exited with 1, all
\* handlers registered and the server not connected
C30_Witness ==
  /\ env = "true"
  /\ sync = "failed"
  /\ Len(handlers) = 5
  /\ ~connected
  /\ exitCode = 1

====
